---- MODULE Spec2Model ----
(***************************************************************************)
(* Model of the measurement core of mfit (src/calculator.py) and of the     *)
(* console session that drives it (src/main.py, src/ui_handler.py).        *)
(*                                                                         *)
(* Numbers.  Pixel coordinates are integers.  A Python float that holds a  *)
(* length is modelled as a fixed-point number: an integer count of 1/Unit  *)
(* of a pixel (or of a centimetre), every operation truncating as the      *)
(* float operation rounds.  The calibration ratio is kept as the exact     *)
(* fraction n/d of its two operands.  Multiplying by one of the float      *)
(* literals of the source (0.30, 1.1, ...) multiplies by its value in      *)
(* hundredths and divides by 100.                                          *)
(*                                                                         *)
(* Outcomes.  A call either returns a value or raises; the outcome of a    *)
(* call is a record [kind, val, arg] with kind "ok" or the name of the     *)
(* Python exception, and arg the exception's payload.                      *)
(***************************************************************************)
EXTENDS Integers, Sequences, FiniteSets, TLC

\* ------------------------------------------------------------------ bounds

\* Largest pixel coordinate of a landmark drawn as an input.
MaxCoord == 8
\* Largest declared height drawn as an input (heights are -1 .. MaxHeight).
MaxHeight == 2
\* Fixed-point refinement: lengths are counted in 1/(100 * Fine) of a unit.
Fine == 10
\* Number of invocations of calculate_all_measurements that may overlap.
NumInv == 2
\* Number of steps of a semi-axis drawn as an input of the ellipse formula.
MaxAxis == 20
\* Largest factor by which a declared height is multiplied.
MaxFactor == 3
\* Number of times the user may restart input collection in one session.
MaxRestarts == 1

Unit == 100 * Fine

\* --------------------------------------------------------------- arithmetic

Abs(v) == IF v < 0 THEN 0 - v ELSE v

Min2(u, v) == IF u <= v THEN u ELSE v

Max2(u, v) == IF u >= v THEN u ELSE v

SetMax(S) == CHOOSE m \in S : \A e \in S : e <= m

SetMin(S) == CHOOSE m \in S : \A e \in S : m <= e

RECURSIVE SqrtSearch(_, _, _)
\* The largest r in lo..hi with r * r <= v (lo * lo <= v is given).
SqrtSearch(v, lo, hi) ==
    IF lo >= hi THEN lo
    ELSE LET mid == (lo + hi + 1) \div 2
         IN  IF mid * mid <= v THEN SqrtSearch(v, mid, hi)
             ELSE SqrtSearch(v, lo, mid - 1)

\* math.sqrt on a fixed-point square: v counts 1/Unit^2, the root 1/Unit.
Sqrt(v) == SqrtSearch(v, 0, Min2(v, 46340))

\* x * c for a float literal c given in hundredths.
MulC(x, c) == (x * c) \div 100

ToCmWithAllowance(x, sc) == (x * sc.n) \div sc.d + Unit

\* length_px * pixel_to_cm, the ratio being the fraction sc.n / sc.d.
ToCm(x, sc) == (x * sc.n) \div sc.d

\* ------------------------------------------------------------ float literals

NeckWidthFactor == 30
NeckDepthFactor == 30
NeckDepthFloor == 30
NeckDepthFallback == 70
ChestWidthFactor == 110
ChestTolerance == 20
WaistTolerance == 10
HipTolerance == 20
BicepFactor == 20
ThighFactor == 25
PiNum == 355
PiDen == 113

\* ---------------------------------------------------------------- outcomes

Ok(v) == [kind |-> "ok", val |-> v, arg |-> ""]

MissingAsValueError(name) == [kind |-> "ValueError", val |-> 0, arg |-> name]

\* A dict subscript on an absent key (src/calculator.py:106 and the like).
KeyError(name) == [kind |-> "KeyError", val |-> 0, arg |-> name]

ValueError(msg) == [kind |-> "ValueError", val |-> 0, arg |-> msg]

ZeroDivisionError == [kind |-> "ZeroDivisionError", val |-> 0, arg |-> "float division by zero"]

NoScale == [n |-> 0, d |-> 1]

\* ------------------------------------------------------- geometry primitives

\* src/calculator.py:12-23.  Points are tuples <<x, y>> of pixels.
euclidean_distance_index_slip(p1, p2) ==
    Sqrt((p2[1] - p1[1]) * Unit * (p2[1] - p1[1]) * Unit
         + (p2[2] - p1[1]) * Unit * (p2[2] - p1[1]) * Unit)

euclidean_distance(p1, p2) ==
    Sqrt((p2[1] - p1[1]) * Unit * (p2[1] - p1[1]) * Unit
         + (p2[2] - p1[2]) * Unit * (p2[2] - p1[2]) * Unit)

\* src/calculator.py:39: h = ((a - b) ** 2) / ((a + b) ** 2), computed and
\* never used; the float division raises when a + b is 0.
EllipseDivides(a, b) == (a + b) * (a + b) # 0

EllipseBracketShortFactor(a, b) == 3 * (a + b) - Sqrt((3 * a + b) * (a + b))

EllipseBracketRootOfOneFactor(a, b) == 3 * (a + b) - Sqrt(3 * a + b) * (a + 3 * b)

EllipseBracketReversed(a, b) == Sqrt((3 * a + b) * (a + 3 * b)) - 3 * (a + b)

\* src/calculator.py:41: the bracket 3(a+b) - sqrt((3a+b)(a+3b)).
EllipseBracket(a, b) == 3 * (a + b) - Sqrt((3 * a + b) * (a + 3 * b))

\* src/calculator.py:26-42.
ramanujan_ellipse_circumference(a, b) ==
    IF ~EllipseDivides(a, b) THEN ZeroDivisionError
    ELSE Ok((PiNum * EllipseBracket(a, b)) \div PiDen)

\* ---------------------------------------------------------------- landmarks

\* The anatomical names the measurement formulas reference (spec section 6) ...
Required ==
    {"NOSE", "LEFT_SHOULDER", "RIGHT_SHOULDER", "LEFT_ELBOW", "RIGHT_ELBOW",
     "LEFT_WRIST", "RIGHT_WRIST", "LEFT_HIP", "RIGHT_HIP", "LEFT_KNEE",
     "RIGHT_KNEE", "LEFT_ANKLE", "RIGHT_ANKLE"}

\* ... and one of the further names the detector emits (image_processor.py:72-81).
Names == Required \cup {"LEFT_FOOT_INDEX"}

\* f'{side}_SHOULDER' and the like (src/calculator.py:129).
SideName(side, part) == IF side = "LEFT" THEN "LEFT_" \o part ELSE "RIGHT_" \o part

Has(lm, name) == name \in DOMAIN lm

\* The first name of the sequence of lookups <<dict, name>> that raises KeyError,
\* "" when every lookup succeeds.  Lookups are made in statement order.
FirstMissing(lookups) ==
    IF \A k \in 1..Len(lookups) : Has(lookups[k][1], lookups[k][2]) THEN ""
    ELSE lookups[SetMin({k \in 1..Len(lookups) : ~Has(lookups[k][1], lookups[k][2])})][2]

\* ----------------------------------------------------------------- calibrator

height_of_required(front_landmarks) ==
    LET y_coordinates == {front_landmarks[n][2] : n \in DOMAIN front_landmarks \cap Required}
    IN  SetMax(y_coordinates) - SetMin(y_coordinates)

\* src/calculator.py:72-80: max(y) - min(y) over front_landmarks.values().
height_in_pixels(front_landmarks) ==
    LET y_coordinates == {front_landmarks[n][2] : n \in DOMAIN front_landmarks}
    IN  SetMax(y_coordinates) - SetMin(y_coordinates)

calibrate_accepting_zero(front_landmarks, user_height_cm) ==
    IF DOMAIN front_landmarks = {}
    THEN [kind |-> "ValueError", scale |-> NoScale, arg |-> "Front landmarks dictionary is empty"]
    ELSE IF user_height_cm < 0
    THEN [kind |-> "ValueError", scale |-> NoScale, arg |-> "Invalid height"]
    ELSE IF height_in_pixels(front_landmarks) <= 0
    THEN [kind |-> "ValueError", scale |-> NoScale, arg |-> "Invalid height in pixels"]
    ELSE [kind |-> "ok",
          scale |-> [n |-> user_height_cm, d |-> height_in_pixels(front_landmarks)],
          arg |-> ""]

\* src/calculator.py:45-87.  The outcome carries the ratio in field scale.
calibrate_pixel_to_cm(front_landmarks, user_height_cm) ==
    IF DOMAIN front_landmarks = {}
    THEN [kind |-> "ValueError", scale |-> NoScale, arg |-> "Front landmarks dictionary is empty"]
    ELSE IF user_height_cm <= 0
    THEN [kind |-> "ValueError", scale |-> NoScale, arg |-> "Invalid height"]
    ELSE IF height_in_pixels(front_landmarks) <= 0
    THEN [kind |-> "ValueError", scale |-> NoScale, arg |-> "Invalid height in pixels"]
    ELSE [kind |-> "ok",
          scale |-> [n |-> user_height_cm, d |-> height_in_pixels(front_landmarks)],
          arg |-> ""]

\* ------------------------------------------------------------ linear measurer

calculate_shoulder_width_unscaled(front_landmarks, pixel_to_cm) ==
    LET missing == FirstMissing(<< <<front_landmarks, "LEFT_SHOULDER">>,
                                   <<front_landmarks, "RIGHT_SHOULDER">> >>)
    IN  IF missing # "" THEN KeyError(missing)
        ELSE Ok(euclidean_distance(front_landmarks["LEFT_SHOULDER"],
                                   front_landmarks["RIGHT_SHOULDER"]))

\* src/calculator.py:94-110.
calculate_shoulder_width(front_landmarks, pixel_to_cm) ==
    LET missing == FirstMissing(<< <<front_landmarks, "LEFT_SHOULDER">>,
                                   <<front_landmarks, "RIGHT_SHOULDER">> >>)
    IN  IF missing # "" THEN KeyError(missing)
        ELSE Ok(ToCm(euclidean_distance(front_landmarks["LEFT_SHOULDER"],
                                        front_landmarks["RIGHT_SHOULDER"]),
                     pixel_to_cm))

calculate_sleeve_length_direct(front_landmarks, pixel_to_cm, side) ==
    LET missing == FirstMissing(<< <<front_landmarks, SideName(side, "SHOULDER")>>,
                                   <<front_landmarks, SideName(side, "ELBOW")>>,
                                   <<front_landmarks, SideName(side, "WRIST")>> >>)
    IN  IF missing # "" THEN KeyError(missing)
        ELSE Ok(ToCm(euclidean_distance(front_landmarks[SideName(side, "SHOULDER")],
                                        front_landmarks[SideName(side, "WRIST")]),
                     pixel_to_cm))

\* src/calculator.py:113-138.
calculate_sleeve_length(front_landmarks, pixel_to_cm, side) ==
    LET missing == FirstMissing(<< <<front_landmarks, SideName(side, "SHOULDER")>>,
                                   <<front_landmarks, SideName(side, "ELBOW")>>,
                                   <<front_landmarks, SideName(side, "WRIST")>> >>)
    IN  IF missing # "" THEN KeyError(missing)
        ELSE LET shoulder == front_landmarks[SideName(side, "SHOULDER")]
                 elbow == front_landmarks[SideName(side, "ELBOW")]
                 wrist == front_landmarks[SideName(side, "WRIST")]
                 shoulder_to_elbow == euclidean_distance(shoulder, elbow)
                 elbow_to_wrist == euclidean_distance(elbow, wrist)
             IN  Ok(ToCm(shoulder_to_elbow + elbow_to_wrist, pixel_to_cm))

CrotchDistanceHigherHip(left_hip, right_hip, ankle) ==
    LET crotch_x == ((left_hip[1] + right_hip[1]) * Unit) \div 2
        crotch_y == Min2(left_hip[2], right_hip[2]) * Unit
    IN  Sqrt((ankle[1] * Unit - crotch_x) * (ankle[1] * Unit - crotch_x)
             + (ankle[2] * Unit - crotch_y) * (ankle[2] * Unit - crotch_y))

CrotchDistanceLeftHip(left_hip, right_hip, ankle) ==
    LET crotch_x == ((left_hip[1] + right_hip[1]) * Unit) \div 2
        crotch_y == left_hip[2] * Unit
    IN  Sqrt((ankle[1] * Unit - crotch_x) * (ankle[1] * Unit - crotch_x)
             + (ankle[2] * Unit - crotch_y) * (ankle[2] * Unit - crotch_y))

\* src/calculator.py:166: the distance from the synthesized crotch point
\* ((lx + rx) / 2, max(ly, ry)) to an ankle; the halved x keeps its fraction.
CrotchDistance(left_hip, right_hip, ankle) ==
    LET crotch_x == ((left_hip[1] + right_hip[1]) * Unit) \div 2
        crotch_y == Max2(left_hip[2], right_hip[2]) * Unit
    IN  Sqrt((ankle[1] * Unit - crotch_x) * (ankle[1] * Unit - crotch_x)
             + (ankle[2] * Unit - crotch_y) * (ankle[2] * Unit - crotch_y))

\* src/calculator.py:141-170.
calculate_inseam(front_landmarks, pixel_to_cm) ==
    LET missing == FirstMissing(<< <<front_landmarks, "LEFT_HIP">>,
                                   <<front_landmarks, "RIGHT_HIP">>,
                                   <<front_landmarks, "LEFT_ANKLE">>,
                                   <<front_landmarks, "RIGHT_ANKLE">> >>)
    IN  IF missing # "" THEN KeyError(missing)
        ELSE LET left_hip == front_landmarks["LEFT_HIP"]
                 right_hip == front_landmarks["RIGHT_HIP"]
                 left_inseam_px == CrotchDistance(left_hip, right_hip, front_landmarks["LEFT_ANKLE"])
                 right_inseam_px == CrotchDistance(left_hip, right_hip, front_landmarks["RIGHT_ANKLE"])
             IN  Ok(ToCm((left_inseam_px + right_inseam_px) \div 2, pixel_to_cm))

calculate_outseam_from_crotch(front_landmarks, pixel_to_cm) ==
    calculate_inseam(front_landmarks, pixel_to_cm)

\* src/calculator.py:173-198.
calculate_outseam(front_landmarks, pixel_to_cm) ==
    LET missing == FirstMissing(<< <<front_landmarks, "LEFT_HIP">>,
                                   <<front_landmarks, "RIGHT_HIP">>,
                                   <<front_landmarks, "LEFT_ANKLE">>,
                                   <<front_landmarks, "RIGHT_ANKLE">> >>)
    IN  IF missing # "" THEN KeyError(missing)
        ELSE LET left_outseam_px == euclidean_distance(front_landmarks["LEFT_HIP"],
                                                       front_landmarks["LEFT_ANKLE"])
                 right_outseam_px == euclidean_distance(front_landmarks["RIGHT_HIP"],
                                                        front_landmarks["RIGHT_ANKLE"])
             IN  Ok(ToCm((left_outseam_px + right_outseam_px) \div 2, pixel_to_cm))

\* -------------------------------------------------------- elliptical measurer

EllipseOfDiameters(width_px, depth_px, pixel_to_cm) ==
    ramanujan_ellipse_circumference(ToCm(width_px, pixel_to_cm),
                                    ToCm(depth_px, pixel_to_cm))

\* The semi-axes (width / 2) * pixel_to_cm and (depth / 2) * pixel_to_cm, then
\* the ellipse formula (src/calculator.py:241-245 and the like).
EllipseOf(width_px, depth_px, pixel_to_cm) ==
    ramanujan_ellipse_circumference(ToCm(width_px \div 2, pixel_to_cm),
                                    ToCm(depth_px \div 2, pixel_to_cm))

\* The band search of src/calculator.py:277-286, 321-330, 365-374: the x of every
\* side landmark whose y is strictly nearer than tolerance to level; their
\* extent, or the fallback |left.x - right.x| when there is none.
BandPointsInclusive(side_landmarks, level, tolerance) ==
    {side_landmarks[n][1] : n \in {m \in DOMAIN side_landmarks :
                                      Abs(side_landmarks[m][2] * Unit - level) <= tolerance}}

BandPoints(side_landmarks, level, tolerance) ==
    {side_landmarks[n][1] : n \in {m \in DOMAIN side_landmarks :
                                      Abs(side_landmarks[m][2] * Unit - level) < tolerance}}

BandDepthNoFallback(side_landmarks, level, tolerance, left, right) ==
    LET level_points == BandPoints(side_landmarks, level, tolerance)
    IN  IF level_points # {}
        THEN (SetMax(level_points) - SetMin(level_points)) * Unit
        ELSE 0

BandDepth(side_landmarks, level, tolerance, left, right) ==
    LET level_points == BandPoints(side_landmarks, level, tolerance)
    IN  IF level_points # {}
        THEN (SetMax(level_points) - SetMin(level_points)) * Unit
        ELSE Abs(left[1] - right[1]) * Unit

calculate_neck_circumference_high_floor(front_landmarks, side_landmarks, pixel_to_cm) ==
    LET missing == FirstMissing(<< <<front_landmarks, "LEFT_SHOULDER">>,
                                   <<front_landmarks, "RIGHT_SHOULDER">>,
                                   <<side_landmarks, "LEFT_SHOULDER">>,
                                   <<side_landmarks, "RIGHT_SHOULDER">> >>)
    IN  IF missing # "" THEN KeyError(missing)
        ELSE LET shoulder_width_px == euclidean_distance(front_landmarks["LEFT_SHOULDER"],
                                                         front_landmarks["RIGHT_SHOULDER"])
                 neck_width_px == MulC(shoulder_width_px, NeckWidthFactor)
                 x_coords == {side_landmarks["LEFT_SHOULDER"][1],
                              side_landmarks["RIGHT_SHOULDER"][1]}
                 spread_px == MulC((SetMax(x_coords) - SetMin(x_coords)) * Unit, NeckDepthFactor)
                 neck_depth_px == IF spread_px < MulC(neck_width_px, NeckDepthFallback)
                                  THEN MulC(neck_width_px, NeckDepthFallback)
                                  ELSE spread_px
             IN  EllipseOf(neck_width_px, neck_depth_px, pixel_to_cm)

\* src/calculator.py:205-245.
calculate_neck_circumference(front_landmarks, side_landmarks, pixel_to_cm) ==
    LET missing == FirstMissing(<< <<front_landmarks, "LEFT_SHOULDER">>,
                                   <<front_landmarks, "RIGHT_SHOULDER">>,
                                   <<side_landmarks, "LEFT_SHOULDER">>,
                                   <<side_landmarks, "RIGHT_SHOULDER">> >>)
    IN  IF missing # "" THEN KeyError(missing)
        ELSE LET shoulder_width_px == euclidean_distance(front_landmarks["LEFT_SHOULDER"],
                                                         front_landmarks["RIGHT_SHOULDER"])
                 neck_width_px == MulC(shoulder_width_px, NeckWidthFactor)
                 x_coords == {side_landmarks["LEFT_SHOULDER"][1],
                              side_landmarks["RIGHT_SHOULDER"][1]}
                 spread_px == MulC((SetMax(x_coords) - SetMin(x_coords)) * Unit, NeckDepthFactor)
                 neck_depth_px == IF spread_px < MulC(neck_width_px, NeckDepthFloor)
                                  THEN MulC(neck_width_px, NeckDepthFallback)
                                  ELSE spread_px
             IN  EllipseOf(neck_width_px, neck_depth_px, pixel_to_cm)

\* src/calculator.py:248-292.
calculate_chest_circumference(front_landmarks, side_landmarks, pixel_to_cm) ==
    LET missing == FirstMissing(<< <<front_landmarks, "LEFT_SHOULDER">>,
                                   <<front_landmarks, "RIGHT_SHOULDER">>,
                                   <<side_landmarks, "LEFT_SHOULDER">>,
                                   <<side_landmarks, "RIGHT_SHOULDER">>,
                                   <<side_landmarks, "LEFT_HIP">> >>)
    IN  IF missing # "" THEN KeyError(missing)
        ELSE LET chest_width_px == MulC(euclidean_distance(front_landmarks["LEFT_SHOULDER"],
                                                           front_landmarks["RIGHT_SHOULDER"]),
                                        ChestWidthFactor)
                 left_shoulder_side == side_landmarks["LEFT_SHOULDER"]
                 right_shoulder_side == side_landmarks["RIGHT_SHOULDER"]
                 chest_y == ((left_shoulder_side[2] + right_shoulder_side[2]) * Unit) \div 2
                 tolerance == MulC(Abs(left_shoulder_side[2] - side_landmarks["LEFT_HIP"][2]) * Unit,
                                   ChestTolerance)
                 chest_depth_px == BandDepth(side_landmarks, chest_y, tolerance,
                                             left_shoulder_side, right_shoulder_side)
             IN  EllipseOf(chest_width_px, chest_depth_px, pixel_to_cm)

\* src/calculator.py:295-336.
calculate_waist_circumference(front_landmarks, side_landmarks, pixel_to_cm) ==
    LET missing == FirstMissing(<< <<front_landmarks, "LEFT_HIP">>,
                                   <<front_landmarks, "RIGHT_HIP">>,
                                   <<side_landmarks, "LEFT_HIP">>,
                                   <<side_landmarks, "RIGHT_HIP">>,
                                   <<side_landmarks, "LEFT_SHOULDER">> >>)
    IN  IF missing # "" THEN KeyError(missing)
        ELSE LET waist_width_px == euclidean_distance(front_landmarks["LEFT_HIP"],
                                                      front_landmarks["RIGHT_HIP"])
                 left_hip_side == side_landmarks["LEFT_HIP"]
                 right_hip_side == side_landmarks["RIGHT_HIP"]
                 waist_y == ((left_hip_side[2] + right_hip_side[2]) * Unit) \div 2
                 tolerance == MulC(Abs(left_hip_side[2] - side_landmarks["LEFT_SHOULDER"][2]) * Unit,
                                   WaistTolerance)
                 waist_depth_px == BandDepth(side_landmarks, waist_y, tolerance,
                                             left_hip_side, right_hip_side)
             IN  EllipseOf(waist_width_px, waist_depth_px, pixel_to_cm)

\* src/calculator.py:339-380.
calculate_hip_circumference(front_landmarks, side_landmarks, pixel_to_cm) ==
    LET missing == FirstMissing(<< <<front_landmarks, "LEFT_HIP">>,
                                   <<front_landmarks, "RIGHT_HIP">>,
                                   <<side_landmarks, "LEFT_HIP">>,
                                   <<side_landmarks, "RIGHT_HIP">>,
                                   <<side_landmarks, "LEFT_KNEE">> >>)
    IN  IF missing # "" THEN KeyError(missing)
        ELSE LET hip_width_px == euclidean_distance(front_landmarks["LEFT_HIP"],
                                                    front_landmarks["RIGHT_HIP"])
                 left_hip_side == side_landmarks["LEFT_HIP"]
                 right_hip_side == side_landmarks["RIGHT_HIP"]
                 hip_y == ((left_hip_side[2] + right_hip_side[2]) * Unit) \div 2
                 tolerance == MulC(Abs(left_hip_side[2] - side_landmarks["LEFT_KNEE"][2]) * Unit,
                                   HipTolerance)
                 hip_depth_px == BandDepth(side_landmarks, hip_y, tolerance,
                                           left_hip_side, right_hip_side)
             IN  EllipseOf(hip_width_px, hip_depth_px, pixel_to_cm)

\* src/calculator.py:383-423.
calculate_bicep_circumference(front_landmarks, side_landmarks, pixel_to_cm, side) ==
    LET missing == FirstMissing(<< <<front_landmarks, SideName(side, "SHOULDER")>>,
                                   <<front_landmarks, SideName(side, "ELBOW")>>,
                                   <<side_landmarks, SideName(side, "SHOULDER")>>,
                                   <<side_landmarks, SideName(side, "ELBOW")>> >>)
    IN  IF missing # "" THEN KeyError(missing)
        ELSE LET arm_length_px == euclidean_distance(front_landmarks[SideName(side, "SHOULDER")],
                                                     front_landmarks[SideName(side, "ELBOW")])
                 bicep_width_px == MulC(arm_length_px, BicepFactor)
                 arm_length_side_px == euclidean_distance(side_landmarks[SideName(side, "SHOULDER")],
                                                          side_landmarks[SideName(side, "ELBOW")])
                 bicep_depth_px == MulC(arm_length_side_px, BicepFactor)
             IN  EllipseOf(bicep_width_px, bicep_depth_px, pixel_to_cm)

\* src/calculator.py:426-461.
calculate_thigh_circumference(front_landmarks, side_landmarks, pixel_to_cm, side) ==
    LET missing == FirstMissing(<< <<front_landmarks, SideName(side, "HIP")>>,
                                   <<front_landmarks, SideName(side, "KNEE")>>,
                                   <<side_landmarks, SideName(side, "HIP")>>,
                                   <<side_landmarks, SideName(side, "KNEE")>> >>)
    IN  IF missing # "" THEN KeyError(missing)
        ELSE LET thigh_length_px == euclidean_distance(front_landmarks[SideName(side, "HIP")],
                                                       front_landmarks[SideName(side, "KNEE")])
                 thigh_width_px == MulC(thigh_length_px, ThighFactor)
                 thigh_length_side_px == euclidean_distance(side_landmarks[SideName(side, "HIP")],
                                                            side_landmarks[SideName(side, "KNEE")])
                 thigh_depth_px == MulC(thigh_length_side_px, ThighFactor)
             IN  EllipseOf(thigh_width_px, thigh_depth_px, pixel_to_cm)

\* ------------------------------------------------------------------- inputs

\* A front view and a side view of one subject in A-pose, y growing downward.
FrontBase ==
    [n \in Names |->
        CASE n = "NOSE" -> <<3, 0>>
          [] n = "LEFT_SHOULDER" -> <<4, 1>>
          [] n = "RIGHT_SHOULDER" -> <<2, 1>>
          [] n = "LEFT_ELBOW" -> <<5, 2>>
          [] n = "RIGHT_ELBOW" -> <<1, 2>>
          [] n = "LEFT_WRIST" -> <<6, 3>>
          [] n = "RIGHT_WRIST" -> <<0, 3>>
          [] n = "LEFT_HIP" -> <<4, 4>>
          [] n = "RIGHT_HIP" -> <<2, 4>>
          [] n = "LEFT_KNEE" -> <<4, 6>>
          [] n = "RIGHT_KNEE" -> <<2, 6>>
          [] n = "LEFT_ANKLE" -> <<4, 7>>
          [] n = "RIGHT_ANKLE" -> <<2, 7>>
          [] OTHER -> <<5, 8>>]

SideBase ==
    [n \in Names |->
        CASE n = "NOSE" -> <<4, 0>>
          [] n = "LEFT_SHOULDER" -> <<3, 1>>
          [] n = "RIGHT_SHOULDER" -> <<2, 1>>
          [] n = "LEFT_ELBOW" -> <<3, 2>>
          [] n = "RIGHT_ELBOW" -> <<2, 3>>
          [] n = "LEFT_WRIST" -> <<4, 3>>
          [] n = "RIGHT_WRIST" -> <<3, 4>>
          [] n = "LEFT_HIP" -> <<3, 4>>
          [] n = "RIGHT_HIP" -> <<2, 4>>
          [] n = "LEFT_KNEE" -> <<3, 6>>
          [] n = "RIGHT_KNEE" -> <<2, 6>>
          [] n = "LEFT_ANKLE" -> <<3, 7>>
          [] n = "RIGHT_ANKLE" -> <<2, 7>>
          [] OTHER -> <<4, 8>>]

Grid == {<<x, y>> : x \in 0..MaxCoord, y \in 0..MaxCoord}

EmptySet == [n \in {} |-> <<0, 0>>]

\* lm without the name r.
Without(lm, r) == [n \in DOMAIN lm \ {r} |-> lm[n]]

\* lm with every landmark at the same height y.
Level(lm, y) == [n \in DOMAIN lm |-> <<lm[n][1], y>>]

\* lm with landmark a moved onto landmark b.
Merged(lm, a, b) == [lm EXCEPT ![a] = lm[b]]

\* One landmark of lm moved anywhere on the grid.
Moved(lm) == {[lm EXCEPT ![n] = p] : n \in Names, p \in Grid}

MergePairs ==
    {<<"LEFT_SHOULDER", "RIGHT_SHOULDER">>, <<"LEFT_HIP", "RIGHT_HIP">>,
     <<"LEFT_ELBOW", "LEFT_SHOULDER">>, <<"RIGHT_ELBOW", "RIGHT_SHOULDER">>,
     <<"LEFT_KNEE", "LEFT_HIP">>, <<"RIGHT_KNEE", "RIGHT_HIP">>}

\* The degenerate sets: a name missing, two landmarks coincident, no landmark,
\* every landmark at one height, a single landmark.
Degenerate(lm) ==
    {lm, EmptySet, Level(lm, 0), [n \in {"NOSE"} |-> lm[n]]}
    \cup {Without(lm, r) : r \in Names}
    \cup {Merged(lm, pr[1], pr[2]) : pr \in MergePairs}

\* lm with the left arm held straight along the diagonal from the corner of
\* the image: the elbow j and the wrist k pixels along it.
StraightArms(lm) ==
    {[lm EXCEPT !["LEFT_SHOULDER"] = <<0, 0>>,
                !["LEFT_ELBOW"] = <<j, j>>,
                !["LEFT_WRIST"] = <<k, k>>] : j \in 0..MaxCoord, k \in 0..MaxCoord}

\* The pairs <<front, side>> drawn as inputs.
ViewPairs ==
    (Moved(FrontBase) \X {SideBase})
    \cup ({FrontBase} \X Moved(SideBase))
    \cup (Degenerate(FrontBase) \X Degenerate(SideBase))
    \cup (StraightArms(FrontBase) \X {SideBase})

Heights == {0 - 1, 0} \cup (1..MaxHeight)

\* The <<height, ratio>> of a direct call: the height handed to the calibrator,
\* and the ratio handed to a measurement function, that height (1 when it is
\* not positive) over 4 or 8 pixels; and one centimetre to the pixel.
CallParams ==
    {<<h, [n |-> Max2(h, 1), d |-> b]>> : h \in Heights, b \in {4, 8}}
    \cup {<<1, [n |-> 1, d |-> 1]>>}

\* The semi-axes handed to a direct call of the ellipse formula: the shortest
\* lengths the model tells apart, and lengths in steps of a quarter centimetre.
AxisValues == (0..MaxAxis) \cup {(k * Unit) \div 4 : k \in 1..MaxAxis}

\* ------------------------------------------------------------------- state

VARIABLES
    \* a direct call of one function of the module
    arg_front, arg_side, arg_height, arg_scale, called, outcome,
    \* the two points or the two semi-axes of a direct call of a geometry primitive
    arg_p1, arg_p2, arg_a, arg_b,
    \* the invocations of calculate_all_measurements, indexed by invocation:
    \* the three arguments, the position in the body, the local pixel_to_cm,
    \* the entries of the dict display evaluated so far, what the caller got
    front, side, height, status, pc, pixel_to_cm, values, returned, raised,
    \* history: the calls each invocation made, with the ratio it passed
    calls,
    \* one run of main: the position in the session, the exit status, what
    \* get_user_consent returned, the number of nested collect_inputs
    step, exit_status, consent, restarts,
    \* the prompt last answered and the text typed at it
    prompted, response,
    \* the locals of main and of the functions it calls: the two validated
    \* paths, the float parsed from the last height entry, the height
    \* get_height returned, the two landmark sets, whether measurements is bound
    image_paths, height_entry, height_cm, front_landmarks, side_landmarks, measurements,
    \* the names that exist in the working directory, the filename of
    \* export_measurements and what it returned
    files, filename, exported,
    \* history: the steps of main in the order they were entered, the step an
    \* exception was raised in, the filename the overwrite prompt was
    \* answered yes for, the last attempt to write a file
    log, failed, approved, written

geoVars == <<arg_p1, arg_p2, arg_a, arg_b>>

fnVars == <<arg_front, arg_side, arg_height, arg_scale, called, outcome, geoVars>>

argVars == <<front, side, height>>

invVars == <<front, side, height, status, pc, pixel_to_cm, values, returned, raised, calls>>

promptVars == <<prompted, response>>

inputLocals == <<image_paths, height_entry, height_cm, restarts>>

detectLocals == <<front_landmarks, side_landmarks, measurements>>

exportLocals == <<files, filename, exported, approved, written>>

mainVars ==
    <<step, exit_status, consent, restarts, prompted, response, image_paths,
      height_entry, height_cm, front_landmarks, side_landmarks, measurements,
      files, filename, exported, log, failed, approved, written>>

vars == <<fnVars, invVars, mainVars>>

Inv == 1..NumInv

NoError == [kind |-> "ok", arg |-> ""]

\* ------------------------------------------------- console text (ui_handler.py)

\* Text typed at a prompt is a tuple of characters.

\* str.lower on one character, for the letters the entries use.
LowerChar(c) ==
    CASE c = "A" -> "a" [] c = "E" -> "e" [] c = "F" -> "f" [] c = "G" -> "g"
      [] c = "I" -> "i" [] c = "J" -> "j" [] c = "N" -> "n" [] c = "O" -> "o"
      [] c = "P" -> "p" [] c = "S" -> "s" [] c = "T" -> "t" [] c = "X" -> "x"
      [] c = "Y" -> "y" [] OTHER -> c

lower(text) == [k \in 1..Len(text) |-> LowerChar(text[k])]

RECURSIVE lstrip(_)
lstrip(text) == IF text # <<>> /\ Head(text) = " " THEN lstrip(Tail(text)) ELSE text

RECURSIVE rstrip(_)
rstrip(text) ==
    IF text # <<>> /\ text[Len(text)] = " " THEN rstrip(SubSeq(text, 1, Len(text) - 1))
    ELSE text

strip(text) == rstrip(lstrip(text))

endswith(text, suffix) ==
    /\ Len(text) >= Len(suffix)
    /\ SubSeq(text, Len(text) - Len(suffix) + 1, Len(text)) = suffix

\* response in ['yes', 'y'] and response in ['no', 'n'].
IsYes(text) == text \in {<<"y", "e", "s">>, <<"y">>}

IsNo(text) == text \in {<<"n", "o">>, <<"n">>}

DigitValue(c) ==
    CASE c = "0" -> 0 [] c = "1" -> 1 [] c = "2" -> 2 [] c = "3" -> 3 [] c = "4" -> 4
      [] c = "5" -> 5 [] c = "6" -> 6 [] c = "7" -> 7 [] c = "8" -> 8 [] OTHER -> 9

IsDigit(c) == c \in {"0", "1", "2", "3", "4", "5", "6", "7", "8", "9"}

RECURSIVE DecimalValue(_)
DecimalValue(digits) ==
    IF digits = <<>> THEN 0
    ELSE 10 * DecimalValue(SubSeq(digits, 1, Len(digits) - 1)) + DigitValue(digits[Len(digits)])

\* A Python float: a number (here always whole), an infinity (val its sign)
\* or a NaN.  NotAFloat is the ValueError float() raises.
Number(v) == [kind |-> "num", val |-> v]

Infinity(sign) == [kind |-> "inf", val |-> sign]

NaN == [kind |-> "nan", val |-> 0]

NotAFloat == [kind |-> "ValueError", val |-> 0]

\* No height: get_height has not returned.
NoHeight == [kind |-> "none", val |-> 0]

\* float(height_str) of src/ui_handler.py:175, on the texts drawn as entries:
\* an optional sign, then digits, or one of the words nan, inf and infinity
\* in any case; surrounding blanks are ignored.
float(text) ==
    LET t == strip(text)
        signed == t # <<>> /\ Head(t) \in {"-", "+"}
        sign == IF t # <<>> /\ Head(t) = "-" THEN 0 - 1 ELSE 1
        body == IF signed THEN Tail(t) ELSE t
    IN  IF lower(body) = <<"n", "a", "n">> THEN NaN
        ELSE IF lower(body) \in {<<"i", "n", "f">>, <<"i", "n", "f", "i", "n", "i", "t", "y">>}
        THEN Infinity(sign)
        ELSE IF body # <<>> /\ \A k \in 1..Len(body) : IsDigit(body[k])
        THEN Number(sign * DecimalValue(body))
        ELSE NotAFloat

\* The float comparisons x <= 0, x < 100 and x > 250: every comparison with
\* a NaN is false.
LessOrEqualZero(x) == (x.kind = "num" /\ x.val <= 0) \/ (x.kind = "inf" /\ x.val < 0)

LessThan100(x) == (x.kind = "num" /\ x.val < 100) \/ (x.kind = "inf" /\ x.val < 0)

GreaterThan250(x) == (x.kind = "num" /\ x.val > 250) \/ (x.kind = "inf" /\ x.val > 0)

\* src/ui_handler.py:108-134.  A path entry carries what the file system
\* says of it: the text typed, whether it exists, whether it is a file, and
\* its suffix.
validate_image_path(path) ==
    /\ strip(path.text) # <<>>
    /\ path.exists
    /\ path.is_file
    /\ lower(path.suffix) \in {<<".", "j", "p", "g">>, <<".", "j", "p", "e", "g">>,
                               <<".", "p", "n", "g">>}

\* src/ui_handler.py:353: measurements_<timestamp>.txt.
default_filename == <<"m", ".", "t", "x", "t">>

\* src/ui_handler.py:357-364: the filename export_measurements writes to.
export_filename(text) ==
    LET typed == IF strip(text) = <<>> THEN default_filename ELSE strip(text)
    IN  IF endswith(typed, <<".", "t", "x", "t">>) THEN typed
        ELSE typed \o <<".", "t", "x", "t">>

path_never_exists(name, directory) == FALSE

\* src/ui_handler.py:367: Path(filename).exists().
path_exists(name, directory) == name \in directory

\* No filename: export_measurements returned None, or has not returned.
NoFile == <<>>

\* ------------------------------------------------------------ console entries

\* The answers typed at a yes/no prompt.
Responses ==
    {<<"y", "e", "s">>, <<"y">>, <<"n", "o">>, <<"n">>, <<"Y", "E", "S">>,
     <<" ", "N", "o", " ">>, <<>>, <<"o", "k">>}

\* The texts typed at the height prompt.
HeightTexts ==
    {<<"1", "7", "5">>, <<" ", "1", "0", "0">>, <<"2", "5", "0">>, <<"9", "9">>,
     <<"2", "5", "1">>, <<"0">>, <<"-", "5">>, <<"+", "1", "8", "0">>, <<>>,
     <<"a", "b", "c">>, <<"1", "7", "5", "c", "m">>, <<"n", "a", "n">>,
     <<"I", "n", "f">>, <<"-", "i", "n", "f">>}

\* The paths typed at an image prompt.
PathEntries ==
    {[text |-> <<"a">>, exists |-> TRUE, is_file |-> TRUE, suffix |-> <<".", "j", "p", "g">>],
     [text |-> <<"b">>, exists |-> TRUE, is_file |-> TRUE, suffix |-> <<".", "P", "N", "G">>],
     [text |-> <<"c">>, exists |-> FALSE, is_file |-> FALSE, suffix |-> <<".", "j", "p", "g">>],
     [text |-> <<"d">>, exists |-> TRUE, is_file |-> FALSE, suffix |-> <<>>],
     [text |-> <<"e">>, exists |-> TRUE, is_file |-> TRUE, suffix |-> <<".", "t", "x", "t">>],
     [text |-> <<" ">>, exists |-> FALSE, is_file |-> FALSE, suffix |-> <<>>]}

NoPath == [text |-> <<>>, exists |-> FALSE, is_file |-> FALSE, suffix |-> <<>>]

\* The texts typed at the filename prompt, and the names the working
\* directory may hold when the session starts.
FileTexts == {<<>>, <<"a">>, <<"a", ".", "t", "x", "t">>, <<"t", "x", "t">>, <<"a", ".", "T", "X", "T">>}

InitialFiles == SUBSET {<<"a", ".", "t", "x", "t">>, default_filename}

\* What get_landmarks returns for the front and for the side photograph.
DetectedFront == {FrontBase, Without(FrontBase, "LEFT_KNEE"), Level(FrontBase, 0)}

DetectedSide == {SideBase, Without(SideBase, "LEFT_SHOULDER")}

\* The exceptions get_landmarks raises (src/image_processor.py:34-68).
DetectionErrors == {"ValueError", "FileNotFoundError"}

\* No attempt to write yet.
NoWrite == [name |-> NoFile, existed |-> FALSE, approved |-> FALSE, ok |-> FALSE]

\* No run of main in progress (the state of the session under the other
\* specifications).
MainIdle ==
    /\ step = "idle"
    /\ exit_status = 0 - 1
    /\ consent = "pending"
    /\ restarts = 0
    /\ prompted = "none"
    /\ response = <<>>
    /\ image_paths = [front |-> NoPath, side |-> NoPath]
    /\ height_entry = NoHeight
    /\ height_cm = NoHeight
    /\ front_landmarks = EmptySet
    /\ side_landmarks = EmptySet
    /\ measurements = "unbound"
    /\ files = {}
    /\ filename = NoFile
    /\ exported = NoFile
    /\ log = <<>>
    /\ failed = "none"
    /\ approved = NoFile
    /\ written = NoWrite

\* No invocation in progress (the state of the orchestrator under SpecFn).
InvIdle ==
    /\ front = [i \in Inv |-> EmptySet]
    /\ side = [i \in Inv |-> EmptySet]
    /\ height = [i \in Inv |-> 0]
    /\ status = [i \in Inv |-> "idle"]
    /\ pc = [i \in Inv |-> 0]
    /\ pixel_to_cm = [i \in Inv |-> NoScale]
    /\ values = [i \in Inv |-> EmptySet]
    /\ returned = [i \in Inv |-> EmptySet]
    /\ raised = [i \in Inv |-> NoError]
    /\ calls = [i \in Inv |-> <<>>]

\* No geometry primitive is being called directly.
GeoIdle ==
    /\ arg_p1 = <<0, 0>>
    /\ arg_p2 = <<0, 0>>
    /\ arg_a = 0
    /\ arg_b = 0

\* No direct call in progress (the state of the direct calls under Spec).
FnIdle ==
    /\ GeoIdle
    /\ arg_front = EmptySet
    /\ arg_side = EmptySet
    /\ arg_height = 0
    /\ arg_scale = NoScale
    /\ called = "idle"
    /\ outcome = Ok(0)

\* ----------------------------------------------- direct calls of one function

FnInit ==
    /\ \E pr \in ViewPairs : arg_front = pr[1] /\ arg_side = pr[2]
    /\ \E cp \in CallParams : arg_height = cp[1] /\ arg_scale = cp[2]
    /\ called = "none"
    /\ outcome = Ok(0)
    /\ GeoIdle
    /\ InvIdle
    /\ MainIdle

Call(fn, res) ==
    /\ called = "none"
    /\ called' = fn
    /\ outcome' = res
    /\ UNCHANGED <<arg_front, arg_side, arg_height, arg_scale, geoVars>>
    /\ UNCHANGED <<invVars, mainVars>>

CallCalibrate ==
    Call("calibrate_pixel_to_cm", calibrate_pixel_to_cm(arg_front, arg_height))

CallShoulderWidth ==
    Call("calculate_shoulder_width", calculate_shoulder_width(arg_front, arg_scale))

CallSleeveLength ==
    \E which \in {"LEFT", "RIGHT"} :
        Call("calculate_sleeve_length_" \o which,
             calculate_sleeve_length(arg_front, arg_scale, which))

CallInseam ==
    Call("calculate_inseam", calculate_inseam(arg_front, arg_scale))

CallOutseam ==
    Call("calculate_outseam", calculate_outseam(arg_front, arg_scale))

CallNeck ==
    Call("calculate_neck_circumference",
         calculate_neck_circumference(arg_front, arg_side, arg_scale))

CallChest ==
    Call("calculate_chest_circumference",
         calculate_chest_circumference(arg_front, arg_side, arg_scale))

CallWaist ==
    Call("calculate_waist_circumference",
         calculate_waist_circumference(arg_front, arg_side, arg_scale))

CallHip ==
    Call("calculate_hip_circumference",
         calculate_hip_circumference(arg_front, arg_side, arg_scale))

CallBicep ==
    \E which \in {"LEFT", "RIGHT"} :
        Call("calculate_bicep_circumference_" \o which,
             calculate_bicep_circumference(arg_front, arg_side, arg_scale, which))

CallThigh ==
    \E which \in {"LEFT", "RIGHT"} :
        Call("calculate_thigh_circumference_" \o which,
             calculate_thigh_circumference(arg_front, arg_side, arg_scale, which))

FnNext ==
    \/ CallCalibrate
    \/ CallShoulderWidth
    \/ CallSleeveLength
    \/ CallInseam
    \/ CallOutseam
    \/ CallNeck
    \/ CallChest
    \/ CallWaist
    \/ CallHip
    \/ CallBicep
    \/ CallThigh

SpecFn == FnInit /\ [][FnNext]_vars

\* ------------------------------------- direct calls of a geometry primitive

\* Either two points of the pixel grid or two semi-axes are drawn.
GeoInit ==
    /\ \/ /\ arg_p1 \in Grid /\ arg_p2 \in Grid
          /\ arg_a = 0 /\ arg_b = 0
       \/ /\ arg_p1 = <<0, 0>> /\ arg_p2 = <<0, 0>>
          /\ arg_a \in AxisValues /\ arg_b \in AxisValues
    /\ arg_front = EmptySet
    /\ arg_side = EmptySet
    /\ arg_height = 0
    /\ arg_scale = NoScale
    /\ called = "none"
    /\ outcome = Ok(0)
    /\ InvIdle
    /\ MainIdle

CallDistance ==
    Call("euclidean_distance", Ok(euclidean_distance(arg_p1, arg_p2)))

CallEllipse ==
    Call("ramanujan_ellipse_circumference", ramanujan_ellipse_circumference(arg_a, arg_b))

GeoNext ==
    \/ CallDistance
    \/ CallEllipse

SpecGeo == GeoInit /\ [][GeoNext]_vars

\* ------------------------------------------------------------- orchestrator

\* src/calculator.py:496-526: the keys of the dict display after 'height', in
\* the order their values are evaluated.
EvalOrder ==
    <<"shoulder_width", "left_sleeve_length", "right_sleeve_length", "inseam",
      "outseam", "neck_circumference", "chest_circumference",
      "waist_circumference", "hip_circumference", "left_bicep_circumference",
      "right_bicep_circumference", "left_thigh_circumference",
      "right_thigh_circumference">>

\* src/calculator.py:496-526: the call that computes the value of key.
Measurement(key, f, s, sc) ==
    CASE key = "shoulder_width" -> calculate_shoulder_width(f, sc)
      [] key = "left_sleeve_length" -> calculate_sleeve_length(f, sc, "LEFT")
      [] key = "right_sleeve_length" -> calculate_sleeve_length(f, sc, "RIGHT")
      [] key = "inseam" -> calculate_inseam(f, sc)
      [] key = "outseam" -> calculate_outseam(f, sc)
      [] key = "neck_circumference" -> calculate_neck_circumference(f, s, sc)
      [] key = "chest_circumference" -> calculate_chest_circumference(f, s, sc)
      [] key = "waist_circumference" -> calculate_waist_circumference(f, s, sc)
      [] key = "hip_circumference" -> calculate_hip_circumference(f, s, sc)
      [] key = "left_bicep_circumference" -> calculate_bicep_circumference(f, s, sc, "LEFT")
      [] key = "right_bicep_circumference" -> calculate_bicep_circumference(f, s, sc, "RIGHT")
      [] key = "left_thigh_circumference" -> calculate_thigh_circumference(f, s, sc, "LEFT")
      [] OTHER -> calculate_thigh_circumference(f, s, sc, "RIGHT")

StaleScale(i) == [n |-> 1, d |-> 1]

SharedScale(i) == pixel_to_cm[1]

\* src/calculator.py:488: pixel_to_cm is a local of the invocation; every
\* measurement call of lines 496-526 is passed that local.
ScaleArg(i) == pixel_to_cm[i]

SharedSlot(i) == 1

\* src/calculator.py:491: measurements is a dict created by the invocation.
Slot(i) == i

HeightEntryCm(i) == "height_cm" :> height[i]

\* src/calculator.py:493: 'height': user_height_cm.
HeightEntry(i) == "height" :> height[i]

Swallow(i, err) ==
    /\ values' = [values EXCEPT ![Slot(i)] =
                      @ @@ ((IF pc[i] = 0 THEN "height" ELSE EvalOrder[pc[i]]) :> 0)]
    /\ pc' = [pc EXCEPT ![i] = @ + 1]
    /\ UNCHANGED <<status, raised>>

\* An exception leaves calculate_all_measurements, which has no handler
\* (src/calculator.py:487-529): the frame and its partial dict are dropped.
Propagate(i, err) ==
    /\ status' = [status EXCEPT ![i] = "raised"]
    /\ raised' = [raised EXCEPT ![i] = [kind |-> err.kind, arg |-> err.arg]]
    /\ values' = [values EXCEPT ![Slot(i)] = EmptySet]
    /\ UNCHANGED pc

\* src/calculator.py:488, 493: calibrate, then start the dict display.
Calibrate(i) ==
    /\ status[i] = "running"
    /\ pc[i] = 0
    /\ LET r == calibrate_pixel_to_cm(front[i], height[i])
       IN  /\ calls' = [calls EXCEPT ![i] = Append(@, [fn |-> "calibrate", scale |-> NoScale])]
           /\ IF r.kind = "ok"
              THEN /\ pixel_to_cm' = [pixel_to_cm EXCEPT ![i] = r.scale]
                   /\ values' = [values EXCEPT ![Slot(i)] = HeightEntry(i)]
                   /\ pc' = [pc EXCEPT ![i] = 1]
                   /\ UNCHANGED <<status, raised>>
              ELSE /\ Propagate(i, r)
                   /\ UNCHANGED pixel_to_cm
    /\ UNCHANGED <<argVars, returned, fnVars, mainVars>>

\* src/calculator.py:496-526: evaluate the next value of the dict display.
Evaluate(i) ==
    /\ status[i] = "running"
    /\ pc[i] \in 1..Len(EvalOrder)
    /\ LET key == EvalOrder[pc[i]]
           r == Measurement(key, front[i], side[i], ScaleArg(i))
       IN  /\ calls' = [calls EXCEPT ![i] = Append(@, [fn |-> key, scale |-> ScaleArg(i)])]
           /\ IF r.kind = "ok"
              THEN /\ values' = [values EXCEPT ![Slot(i)] = @ @@ (key :> r.val)]
                   /\ pc' = [pc EXCEPT ![i] = @ + 1]
                   /\ UNCHANGED <<status, raised>>
              ELSE Propagate(i, r)
    /\ UNCHANGED <<argVars, pixel_to_cm, returned, fnVars, mainVars>>

\* src/calculator.py:529: return measurements.
Return(i) ==
    /\ status[i] = "running"
    /\ pc[i] = Len(EvalOrder) + 1
    /\ returned' = [returned EXCEPT ![i] = values[Slot(i)]]
    /\ status' = [status EXCEPT ![i] = "returned"]
    /\ UNCHANGED <<argVars, pc, pixel_to_cm, values, raised, calls, fnVars, mainVars>>

Next ==
    \E i \in Inv :
        \/ Calibrate(i)
        \/ Evaluate(i)
        \/ Return(i)

\* The invocations in Running start on the arguments args[i] = <<front, side, height>>.
Invoked(Running, args) ==
    /\ front = [i \in Inv |-> IF i \in Running THEN args[i][1] ELSE EmptySet]
    /\ side = [i \in Inv |-> IF i \in Running THEN args[i][2] ELSE EmptySet]
    /\ height = [i \in Inv |-> IF i \in Running THEN args[i][3] ELSE 0]
    /\ status = [i \in Inv |-> IF i \in Running THEN "running" ELSE "idle"]
    /\ pc = [i \in Inv |-> 0]
    /\ pixel_to_cm = [i \in Inv |-> NoScale]
    /\ values = [i \in Inv |-> EmptySet]
    /\ returned = [i \in Inv |-> EmptySet]
    /\ raised = [i \in Inv |-> NoError]
    /\ calls = [i \in Inv |-> <<>>]

\* One invocation, on any of the input pairs and heights.
Init ==
    /\ \E pr \in ViewPairs, h \in Heights :
           Invoked({1}, [i \in Inv |-> <<pr[1], pr[2], h>>])
    /\ FnIdle
    /\ MainIdle

Spec == Init /\ [][Next]_vars

\* The arguments of overlapping invocations: two that return, one whose
\* calibration raises, one that raises at the neck (coincident shoulders in
\* both views) and one that raises at the left thigh (no front LEFT_KNEE).
ConcInputs ==
    {<<FrontBase, SideBase, h>> : h \in {0, 1, MaxHeight}}
    \cup {<<Without(FrontBase, "LEFT_KNEE"), SideBase, 1>>,
          <<Merged(FrontBase, "LEFT_SHOULDER", "RIGHT_SHOULDER"),
            Merged(SideBase, "LEFT_SHOULDER", "RIGHT_SHOULDER"), 1>>}

\* NumInv invocations, interleaved step by step in every order.
ConcInit ==
    /\ \E args \in [Inv -> ConcInputs] : Invoked(Inv, args)
    /\ FnIdle
    /\ MainIdle

SpecConc == ConcInit /\ [][Next]_vars

\* ------------------------------------------------------ the session (main.py)

\* The steps at which main waits in input().
PromptSteps ==
    {"consent", "front_path", "side_path", "height", "height_confirm", "inputs_confirm",
     "export_ask", "export_name", "export_overwrite", "export_retry"}

\* One answer to the prompt of src/ui_handler.py:98: the function returns
\* True, or prints and asks again; it has no statement that returns False.
get_user_consent(text) ==
    IF IsYes(lower(strip(text))) THEN "True" ELSE "again"

\* src/main.py:97-126 over src/calculator.py:468-529: "ok" when
\* calculate_all_measurements returns on the landmark sets and the height of
\* the session, the exception it raises otherwise.  The values are not
\* carried: the height guard is applied to the float of the session, and the
\* measurements, whose exceptions do not depend on a positive ratio, are
\* evaluated at one centimetre to the pixel.
calculation_outcome(f, s, h) ==
    IF calibrate_pixel_to_cm(f, IF LessOrEqualZero(h) THEN 0 ELSE 1).kind # "ok"
    THEN "ValueError"
    ELSE LET raising == {k \in 1..Len(EvalOrder) :
                            Measurement(EvalOrder[k], f, s, [n |-> 1, d |-> 1]).kind # "ok"}
         IN  IF raising = {} THEN "ok"
             ELSE Measurement(EvalOrder[SetMin(raising)], f, s, [n |-> 1, d |-> 1]).kind

\* input(): the text typed at the prompt of the current step.
Answer(text) ==
    /\ prompted' = step
    /\ response' = text

\* display_error(...) then sys.exit(1), the step in which the exception was
\* raised having been entered as the log entries entered.
Abort(entered) ==
    /\ log' = log \o entered \o <<"error">>
    /\ failed' = step
    /\ exit_status' = 1
    /\ step' = "exited"

\* src/main.py:41-42, 96: welcome and guidelines, then the consent prompt.
Start ==
    /\ step = "start"
    /\ step' = "consent"
    /\ log' = log \o <<"welcome", "guidelines", "consent">>
    /\ UNCHANGED <<exit_status, failed, consent, promptVars, inputLocals, detectLocals,
                   exportLocals>>
    /\ UNCHANGED <<fnVars, invVars>>

\* src/main.py:45-50 with src/ui_handler.py:97-105: one answer to the consent
\* prompt.
Consent ==
    /\ step = "consent"
    /\ \E text \in Responses :
           /\ Answer(text)
           /\ LET r == get_user_consent(text)
              IN  CASE r = "True" ->
                           /\ consent' = "True"
                           /\ step' = "front_path"
                           /\ log' = Append(log, "input_collection")
                           /\ UNCHANGED exit_status
                    [] r = "False" ->
                           /\ consent' = "False"
                           /\ step' = "exited"
                           /\ log' = Append(log, "exit_message")
                           /\ exit_status' = 0
                    [] OTHER -> UNCHANGED <<consent, step, log, exit_status>>
    /\ UNCHANGED <<failed, inputLocals, detectLocals, exportLocals>>
    /\ UNCHANGED <<fnVars, invVars>>

\* src/ui_handler.py:137-158, called at 208 and 209: one answer to an image
\* path prompt.
ImagePath ==
    /\ step \in {"front_path", "side_path"}
    /\ \E path \in PathEntries :
           /\ Answer(path.text)
           /\ IF validate_image_path(path)
              THEN /\ image_paths' = IF step = "front_path"
                                     THEN [image_paths EXCEPT !.front = path]
                                     ELSE [image_paths EXCEPT !.side = path]
                   /\ step' = IF step = "front_path" THEN "side_path" ELSE "height"
              ELSE UNCHANGED <<image_paths, step>>
    /\ UNCHANGED <<height_entry, height_cm, restarts>>
    /\ UNCHANGED <<exit_status, failed, consent, log, detectLocals, exportLocals>>
    /\ UNCHANGED <<fnVars, invVars>>

\* src/ui_handler.py:171-193: one answer to the height prompt.
Height ==
    /\ step = "height"
    /\ \E text \in HeightTexts :
           /\ Answer(text)
           /\ LET height_value == float(strip(text))
              IN  IF height_value.kind = "ValueError"
                  THEN UNCHANGED <<step, height_entry, height_cm>>
                  ELSE IF LessOrEqualZero(height_value)
                  THEN /\ height_entry' = height_value
                       /\ UNCHANGED <<step, height_cm>>
                  ELSE IF LessThan100(height_value) \/ GreaterThan250(height_value)
                  THEN /\ height_entry' = height_value
                       /\ step' = "height_confirm"
                       /\ UNCHANGED height_cm
                  ELSE /\ height_entry' = height_value
                       /\ height_cm' = height_value
                       /\ step' = "inputs_confirm"
    /\ UNCHANGED <<image_paths, restarts>>
    /\ UNCHANGED <<exit_status, failed, consent, log, detectLocals, exportLocals>>
    /\ UNCHANGED <<fnVars, invVars>>

\* src/ui_handler.py:183-188: the answer to "Is this correct?".
HeightConfirm ==
    /\ step = "height_confirm"
    /\ \E text \in Responses :
           /\ Answer(text)
           /\ IF IsYes(lower(strip(text)))
              THEN /\ height_cm' = height_entry
                   /\ step' = "inputs_confirm"
              ELSE /\ step' = "height"
                   /\ UNCHANGED height_cm
    /\ UNCHANGED <<image_paths, height_entry, restarts>>
    /\ UNCHANGED <<exit_status, failed, consent, log, detectLocals, exportLocals>>
    /\ UNCHANGED <<fnVars, invVars>>

\* src/ui_handler.py:221-229: the answer to "Proceed with these inputs?"; on
\* no, collect_inputs calls itself and starts again with fresh locals.
InputsConfirm ==
    /\ step = "inputs_confirm"
    /\ \E text \in Responses :
           /\ Answer(text)
           /\ IF IsYes(lower(strip(text)))
              THEN /\ step' = "front_detection"
                   /\ UNCHANGED inputLocals
              ELSE IF IsNo(lower(strip(text)))
              THEN /\ restarts < MaxRestarts
                   /\ restarts' = restarts + 1
                   /\ image_paths' = [front |-> NoPath, side |-> NoPath]
                   /\ height_entry' = NoHeight
                   /\ height_cm' = NoHeight
                   /\ step' = "front_path"
              ELSE UNCHANGED <<step, inputLocals>>
    /\ UNCHANGED <<exit_status, failed, consent, log, detectLocals, exportLocals>>
    /\ UNCHANGED <<fnVars, invVars>>

DetectFrontLenient ==
    /\ step = "front_detection"
    /\ \/ \E lm \in DetectedFront :
              /\ front_landmarks' = lm
              /\ step' = "side_detection"
              /\ log' = Append(log, "front_detection")
              /\ UNCHANGED <<exit_status, failed>>
       \/ \E err \in DetectionErrors :
              /\ log' = log \o <<"front_detection", "error">>
              /\ failed' = step
              /\ step' = "side_detection"
              /\ UNCHANGED <<exit_status, front_landmarks>>
    /\ UNCHANGED <<side_landmarks, measurements>>
    /\ UNCHANGED <<consent, promptVars, inputLocals, exportLocals>>
    /\ UNCHANGED <<fnVars, invVars>>

\* src/main.py:55-72: get_landmarks on the front photograph returns a
\* landmark set or raises.
DetectFront ==
    /\ step = "front_detection"
    /\ \/ \E lm \in DetectedFront :
              /\ front_landmarks' = lm
              /\ step' = "side_detection"
              /\ log' = Append(log, "front_detection")
              /\ UNCHANGED <<exit_status, failed>>
       \/ \E err \in DetectionErrors :
              /\ Abort(<<"front_detection">>)
              /\ UNCHANGED front_landmarks
    /\ UNCHANGED <<side_landmarks, measurements>>
    /\ UNCHANGED <<consent, promptVars, inputLocals, exportLocals>>
    /\ UNCHANGED <<fnVars, invVars>>

\* src/main.py:74-92: the same on the side photograph.
DetectSide ==
    /\ step = "side_detection"
    /\ \/ \E lm \in DetectedSide :
              /\ side_landmarks' = lm
              /\ step' = "calculation"
              /\ log' = Append(log, "side_detection")
              /\ UNCHANGED <<exit_status, failed>>
       \/ \E err \in DetectionErrors :
              /\ Abort(<<"side_detection">>)
              /\ UNCHANGED side_landmarks
    /\ UNCHANGED <<front_landmarks, measurements>>
    /\ UNCHANGED <<consent, promptVars, inputLocals, exportLocals>>
    /\ UNCHANGED <<fnVars, invVars>>

\* src/main.py:94-126: calculate_all_measurements returns or raises.
Calculate ==
    /\ step = "calculation"
    /\ IF calculation_outcome(front_landmarks, side_landmarks, height_cm) = "ok"
       THEN /\ measurements' = "bound"
            /\ step' = "result_display"
            /\ log' = Append(log, "calculation")
            /\ UNCHANGED <<exit_status, failed>>
       ELSE /\ Abort(<<"calculation">>)
            /\ UNCHANGED measurements
    /\ UNCHANGED <<front_landmarks, side_landmarks>>
    /\ UNCHANGED <<consent, promptVars, inputLocals, exportLocals>>
    /\ UNCHANGED <<fnVars, invVars>>

\* src/main.py:128-132: the report, then the first prompt of
\* export_measurements.
Display ==
    /\ step = "result_display"
    /\ step' = "export_ask"
    /\ log' = log \o <<"result_display", "export_offer">>
    /\ UNCHANGED <<exit_status, failed, consent, promptVars, inputLocals, detectLocals,
                   exportLocals>>
    /\ UNCHANGED <<fnVars, invVars>>

\* src/ui_handler.py:342-350: the answer to "Would you like to save?".
ExportAsk ==
    /\ step = "export_ask"
    /\ \E text \in Responses :
           /\ Answer(text)
           /\ IF IsNo(lower(strip(text)))
              THEN /\ exported' = NoFile
                   /\ step' = "completion"
              ELSE IF IsYes(lower(strip(text)))
              THEN /\ step' = "export_name"
                   /\ UNCHANGED exported
              ELSE UNCHANGED <<step, exported>>
    /\ UNCHANGED <<files, filename, approved, written>>
    /\ UNCHANGED <<exit_status, failed, consent, log, inputLocals, detectLocals>>
    /\ UNCHANGED <<fnVars, invVars>>

\* src/ui_handler.py:356-367: the answer to the filename prompt.
ExportName ==
    /\ step = "export_name"
    /\ \E text \in FileTexts :
           /\ Answer(text)
           /\ filename' = export_filename(text)
           /\ approved' = NoFile
           /\ step' = IF path_exists(export_filename(text), files)
                      THEN "export_overwrite" ELSE "export_write"
    /\ UNCHANGED <<files, exported, written>>
    /\ UNCHANGED <<exit_status, failed, consent, log, inputLocals, detectLocals>>
    /\ UNCHANGED <<fnVars, invVars>>

\* src/ui_handler.py:368-371: the answer to "Overwrite?".
ExportOverwrite ==
    /\ step = "export_overwrite"
    /\ \E text \in Responses :
           /\ Answer(text)
           /\ IF IsYes(lower(strip(text)))
              THEN /\ approved' = filename
                   /\ step' = "export_write"
              ELSE /\ step' = "export_name"
                   /\ UNCHANGED approved
    /\ UNCHANGED <<files, filename, exported, written>>
    /\ UNCHANGED <<exit_status, failed, consent, log, inputLocals, detectLocals>>
    /\ UNCHANGED <<fnVars, invVars>>

\* src/ui_handler.py:373-379: open(filename, 'w') and write succeed, or one
\* of them raises; a failure may leave the file created.
ExportWrite ==
    /\ step = "export_write"
    /\ \E ok \in BOOLEAN :
           /\ written' = [name |-> filename, existed |-> filename \in files,
                          approved |-> approved = filename, ok |-> ok]
           /\ IF ok
              THEN /\ files' = files \cup {filename}
                   /\ exported' = filename
                   /\ step' = "completion"
              ELSE /\ \E created \in BOOLEAN :
                          files' = IF created THEN files \cup {filename} ELSE files
                   /\ step' = "export_retry"
                   /\ UNCHANGED exported
    /\ UNCHANGED <<filename, approved>>
    /\ UNCHANGED <<exit_status, failed, consent, log, promptVars, inputLocals, detectLocals>>
    /\ UNCHANGED <<fnVars, invVars>>

\* src/ui_handler.py:380-382: the answer to "Try again?".
ExportRetry ==
    /\ step = "export_retry"
    /\ \E text \in Responses :
           /\ Answer(text)
           /\ IF IsYes(lower(strip(text)))
              THEN /\ step' = "export_name"
                   /\ UNCHANGED exported
              ELSE /\ exported' = NoFile
                   /\ step' = "completion"
    /\ UNCHANGED <<files, filename, approved, written>>
    /\ UNCHANGED <<exit_status, failed, consent, log, inputLocals, detectLocals>>
    /\ UNCHANGED <<fnVars, invVars>>

\* src/main.py:134-142: the completion message, then sys.exit(0).
Completion ==
    /\ step = "completion"
    /\ step' = "exited"
    /\ exit_status' = 0
    /\ log' = Append(log, "completion")
    /\ UNCHANGED <<failed, consent, promptVars, inputLocals, detectLocals, exportLocals>>
    /\ UNCHANGED <<fnVars, invVars>>

\* src/main.py:144-146: Ctrl+C at a prompt.
Interrupt ==
    /\ step \in PromptSteps
    /\ step' = "exited"
    /\ exit_status' = 0
    /\ log' = Append(log, "cancelled")
    /\ UNCHANGED <<failed, consent, promptVars, inputLocals, detectLocals, exportLocals>>
    /\ UNCHANGED <<fnVars, invVars>>

\* src/main.py:147-152: the input ends at a prompt; input() raises EOFError.
EndOfInput ==
    /\ step \in PromptSteps
    /\ Abort(<<>>)
    /\ UNCHANGED <<consent, promptVars, inputLocals, detectLocals, exportLocals>>
    /\ UNCHANGED <<fnVars, invVars>>

MainNext ==
    \/ Start
    \/ Consent
    \/ ImagePath
    \/ Height
    \/ HeightConfirm
    \/ InputsConfirm
    \/ DetectFront
    \/ DetectSide
    \/ Calculate
    \/ Display
    \/ ExportAsk
    \/ ExportName
    \/ ExportOverwrite
    \/ ExportWrite
    \/ ExportRetry
    \/ Completion
    \/ Interrupt
    \/ EndOfInput

\* A run of main from its first statement, in a working directory that holds
\* any of the initial files.
MainInit ==
    /\ step = "start"
    /\ exit_status = 0 - 1
    /\ consent = "pending"
    /\ restarts = 0
    /\ prompted = "none"
    /\ response = <<>>
    /\ image_paths = [front |-> NoPath, side |-> NoPath]
    /\ height_entry = NoHeight
    /\ height_cm = NoHeight
    /\ front_landmarks = EmptySet
    /\ side_landmarks = EmptySet
    /\ measurements = "unbound"
    /\ files \in InitialFiles
    /\ filename = NoFile
    /\ exported = NoFile
    /\ log = <<>>
    /\ failed = "none"
    /\ approved = NoFile
    /\ written = NoWrite
    /\ FnIdle
    /\ InvIdle

SpecMain == MainInit /\ [][MainNext]_vars

\* ================================================================== claims

\* ---- the calibrator (under SpecFn)

Calibrated == called = "calibrate_pixel_to_cm"

\* C1: for a non-empty front set and a height h > 0, with p > 0 the difference
\* between the largest and the smallest y over every landmark of the set,
\* calibrate_pixel_to_cm returns the ratio h / p, which is strictly positive.
C1_CalibrateReturnsHeightOverExtent ==
    (Calibrated /\ arg_height > 0) =>
        \A top, bottom \in DOMAIN arg_front :
            (/\ \A c \in DOMAIN arg_front :
                    arg_front[top][2] <= arg_front[c][2] /\ arg_front[c][2] <= arg_front[bottom][2]
             /\ arg_front[bottom][2] > arg_front[top][2])
            => /\ outcome.kind = "ok"
               /\ outcome.scale.n * (arg_front[bottom][2] - arg_front[top][2])
                      = arg_height * outcome.scale.d
               /\ outcome.scale.n > 0
               /\ outcome.scale.d > 0

\* A calibration whose extent is set by a landmark outside the required names.
C1_Witness ==
    /\ Calibrated
    /\ arg_height = 2
    /\ DOMAIN arg_front = Names
    /\ \A c \in Required : arg_front[c][2] < arg_front["LEFT_FOOT_INDEX"][2]
    /\ outcome.kind = "ok"
    /\ outcome.scale = [n |-> 2, d |-> 8]

\* C2: calibrate_pixel_to_cm raises ValueError and returns no ratio when the
\* front set is empty, the height is <= 0, or every landmark has the same y;
\* and it never raises KeyError, whatever names the set holds.
C2_CalibrateInvalidInput ==
    Calibrated =>
        /\ outcome.kind # "KeyError"
        /\ (\/ DOMAIN arg_front = {}
            \/ arg_height <= 0
            \/ \A a, b \in DOMAIN arg_front : arg_front[a][2] = arg_front[b][2])
           => (outcome.kind = "ValueError" /\ outcome.scale = NoScale)

\* A positive height on a set whose landmarks all share one y, and a zero
\* height on a full set: both rejected.
C2_Witness ==
    /\ Calibrated
    /\ outcome.kind = "ValueError"
    /\ \/ arg_height > 0 /\ DOMAIN arg_front = Names
       \/ arg_height = 0 /\ arg_front = FrontBase

\* ---- the measurement functions (under SpecFn)

\* The names each function subscripts in the front and in the side set.
FrontNamesOf(fn) ==
    CASE fn \in {"calculate_shoulder_width", "calculate_neck_circumference",
                 "calculate_chest_circumference"} -> {"LEFT_SHOULDER", "RIGHT_SHOULDER"}
      [] fn = "calculate_sleeve_length_LEFT" -> {"LEFT_SHOULDER", "LEFT_ELBOW", "LEFT_WRIST"}
      [] fn = "calculate_sleeve_length_RIGHT" -> {"RIGHT_SHOULDER", "RIGHT_ELBOW", "RIGHT_WRIST"}
      [] fn \in {"calculate_inseam", "calculate_outseam"} ->
             {"LEFT_HIP", "RIGHT_HIP", "LEFT_ANKLE", "RIGHT_ANKLE"}
      [] fn \in {"calculate_waist_circumference", "calculate_hip_circumference"} ->
             {"LEFT_HIP", "RIGHT_HIP"}
      [] fn = "calculate_bicep_circumference_LEFT" -> {"LEFT_SHOULDER", "LEFT_ELBOW"}
      [] fn = "calculate_bicep_circumference_RIGHT" -> {"RIGHT_SHOULDER", "RIGHT_ELBOW"}
      [] fn = "calculate_thigh_circumference_LEFT" -> {"LEFT_HIP", "LEFT_KNEE"}
      [] fn = "calculate_thigh_circumference_RIGHT" -> {"RIGHT_HIP", "RIGHT_KNEE"}
      [] OTHER -> {}

SideNamesOf(fn) ==
    CASE fn = "calculate_neck_circumference" -> {"LEFT_SHOULDER", "RIGHT_SHOULDER"}
      [] fn = "calculate_chest_circumference" -> {"LEFT_SHOULDER", "RIGHT_SHOULDER", "LEFT_HIP"}
      [] fn = "calculate_waist_circumference" -> {"LEFT_HIP", "RIGHT_HIP", "LEFT_SHOULDER"}
      [] fn = "calculate_hip_circumference" -> {"LEFT_HIP", "RIGHT_HIP", "LEFT_KNEE"}
      [] fn = "calculate_bicep_circumference_LEFT" -> {"LEFT_SHOULDER", "LEFT_ELBOW"}
      [] fn = "calculate_bicep_circumference_RIGHT" -> {"RIGHT_SHOULDER", "RIGHT_ELBOW"}
      [] fn = "calculate_thigh_circumference_LEFT" -> {"LEFT_HIP", "LEFT_KNEE"}
      [] fn = "calculate_thigh_circumference_RIGHT" -> {"RIGHT_HIP", "RIGHT_KNEE"}
      [] OTHER -> {}

Circumferences ==
    {"calculate_neck_circumference", "calculate_chest_circumference",
     "calculate_waist_circumference", "calculate_hip_circumference",
     "calculate_bicep_circumference_LEFT", "calculate_bicep_circumference_RIGHT",
     "calculate_thigh_circumference_LEFT", "calculate_thigh_circumference_RIGHT"}

\* The names the called function subscripts that its arguments do not hold.
Absent ==
    (FrontNamesOf(called) \ DOMAIN arg_front) \cup (SideNamesOf(called) \ DOMAIN arg_side)

\* C3: a linear or circumference function called on sets from which a name it
\* looks up is absent raises KeyError whose payload is an absent name (the
\* absent name, when there is one) and returns no value.
C3_MissingLandmarkNamesTheKey ==
    (~Calibrated /\ Absent # {}) =>
        /\ outcome.kind = "KeyError"
        /\ outcome.arg \in Absent
        /\ outcome.val = 0

\* The chest function on a side set without LEFT_HIP, its last lookup.
C3_Witness ==
    /\ called = "calculate_chest_circumference"
    /\ DOMAIN arg_front = Names
    /\ Absent = {"LEFT_HIP"}
    /\ outcome = [kind |-> "KeyError", val |-> 0, arg |-> "LEFT_HIP"]

\* C4: a circumference function called with a positive ratio on sets that hold
\* every name it looks up returns a number and raises nothing.
C4_CircumferenceNeverRaises ==
    (called \in Circumferences /\ Absent = {} /\ arg_scale.n > 0 /\ arg_scale.d > 0)
        => outcome.kind = "ok"

\* ---- the orchestrator, one invocation (under Spec)

\* The sub-computations in the order the claim gives them.
ClaimOrder ==
    <<"calibrate", "shoulder_width", "left_sleeve_length", "right_sleeve_length",
      "inseam", "outseam", "neck_circumference", "chest_circumference",
      "waist_circumference", "hip_circumference", "left_bicep_circumference",
      "right_bicep_circumference", "left_thigh_circumference",
      "right_thigh_circumference">>

\* The outcome of sub-computation k on the arguments <<f, s, h>>, the
\* measurements being given the ratio calibration returns.
SubOutcome(f, s, h, k) ==
    LET c == calibrate_pixel_to_cm(f, h)
    IN  IF k = 1 THEN [kind |-> c.kind, arg |-> c.arg]
        ELSE LET r == Measurement(ClaimOrder[k], f, s, c.scale)
             IN  [kind |-> r.kind, arg |-> r.arg]

\* The first sub-computation that raises, 0 when none does.
FirstFailing(f, s, h) ==
    IF SubOutcome(f, s, h, 1).kind # "ok" THEN 1
    ELSE LET failing == {k \in 2..Len(ClaimOrder) : SubOutcome(f, s, h, k).kind # "ok"}
         IN  IF failing = {} THEN 0 ELSE SetMin(failing)

\* C5: when calibration or a measurement raises, the invocation ends with the
\* error of the first failing sub-computation in evaluation order, runs no
\* later sub-computation and returns no MeasurementSet, complete or partial.
\* (While the invocation runs, the sub-computation it last ran did not raise;
\* once it has ended, it raised exactly when some sub-computation raises, at
\* the first such and with its error.)
C5_FailFast ==
    \A i \in Inv :
        status[i] # "idle" =>
            LET done == Len(calls[i])
            IN  /\ \A k \in 1..done : calls[i][k].fn = ClaimOrder[k]
                /\ (status[i] = "running" /\ done >= 1) =>
                       SubOutcome(front[i], side[i], height[i], done).kind = "ok"
                /\ status[i] = "returned" =>
                       FirstFailing(front[i], side[i], height[i]) = 0
                /\ status[i] = "raised" =>
                       /\ FirstFailing(front[i], side[i], height[i]) = done
                       /\ raised[i] = SubOutcome(front[i], side[i], height[i], done)
                       /\ returned[i] = EmptySet

\* Twelve sub-computations succeed, the thirteenth (left thigh) raises.
C5_Witness ==
    /\ status[1] = "raised"
    /\ raised[1] = [kind |-> "KeyError", arg |-> "LEFT_KNEE"]
    /\ Len(calls[1]) = 13
    /\ returned[1] = EmptySet

\* C6: in one invocation calibration runs exactly once, before every
\* measurement, and every measurement call is given the ratio it returned.
C6_CalibrateOnceThenMeasure ==
    \A i \in Inv :
        calls[i] # <<>> =>
            /\ calls[i][1].fn = "calibrate"
            /\ Len(calls[i]) >= 2 =>
                   LET c == calibrate_pixel_to_cm(front[i], height[i])
                   IN  /\ c.kind = "ok"
                       /\ \A k \in 2..Len(calls[i]) :
                              /\ calls[i][k].fn # "calibrate"
                              /\ calls[i][k].scale = c.scale

\* All thirteen measurements made, each with the ratio 2 / 8.
C6_Witness ==
    /\ Len(calls[1]) = 14
    /\ \A k \in 2..14 : calls[1][k].scale = [n |-> 2, d |-> 8]

MeasurementKeys ==
    {"height", "shoulder_width", "left_sleeve_length", "right_sleeve_length",
     "inseam", "outseam", "neck_circumference", "chest_circumference",
     "waist_circumference", "hip_circumference", "left_bicep_circumference",
     "right_bicep_circumference", "left_thigh_circumference",
     "right_thigh_circumference"}

\* C7: a returned MeasurementSet has exactly the fourteen keys of the fixed
\* vocabulary, and its 'height' is the input height.
C7_FourteenKeysAndHeight ==
    \A i \in Inv :
        status[i] = "returned" =>
            /\ DOMAIN returned[i] = MeasurementKeys
            /\ returned[i]["height"] = height[i]

C7_Witness ==
    /\ status[1] = "returned"
    /\ height[1] = 2
    /\ Cardinality(DOMAIN returned[1]) = 14
    /\ returned[1]["height"] = 2

Finished(i) == status[i] \in {"returned", "raised"}

\* C9: two invocations on identical front set, side set and height end alike:
\* both return the same MeasurementSet or both raise the same error.
C9_Deterministic ==
    \A i, j \in Inv :
        (/\ Finished(i) /\ Finished(j)
         /\ front[i] = front[j] /\ side[i] = side[j] /\ height[i] = height[j])
        => /\ status[i] = status[j]
           /\ returned[i] = returned[j]
           /\ raised[i] = raised[j]

\* Two invocations on the same arguments, both returned, and two both raised.
C9_Witness ==
    \E i, j \in Inv :
        /\ i # j
        /\ front[i] = front[j] /\ side[i] = side[j] /\ height[i] = height[j]
        /\ status[i] = "returned" /\ status[j] = "returned"
        /\ returned[i]["chest_circumference"] > 0

\* What one invocation on <<f, s, h>> gives when nothing else runs.
AloneResult(f, s, h) ==
    LET ff == FirstFailing(f, s, h)
        sc == calibrate_pixel_to_cm(f, h).scale
    IN  IF ff # 0
        THEN [status |-> "raised", returned |-> EmptySet, raised |-> SubOutcome(f, s, h, ff)]
        ELSE [status |-> "returned",
              returned |-> [key \in MeasurementKeys |->
                               IF key = "height" THEN h
                               ELSE Measurement(key, f, s, sc).val],
              raised |-> NoError]

ResultAsAlone ==
    \A i \in Inv :
        Finished(i) =>
            [status |-> status[i], returned |-> returned[i], raised |-> raised[i]]
                = AloneResult(front[i], side[i], height[i])

ArgumentsReadOnly ==
    \A i \in Inv :
        /\ front'[i] = front[i]
        /\ side'[i] = side[i]
        /\ height'[i] = height[i]
        /\ pixel_to_cm[i] # NoScale => pixel_to_cm'[i] = pixel_to_cm[i]

\* C10: however invocations are interleaved, each ends as it does when run
\* alone, and no step changes a front set, a side set or a ratio once made.
C10_NoSharedWritableState == [](ResultAsAlone) /\ [][ArgumentsReadOnly]_vars

\* Two invocations on different arguments, interleaved, one returned and one
\* raised.
C10_Witness ==
    \E i, j \in Inv :
        /\ status[i] = "returned" /\ height[i] = 1
        /\ status[j] = "raised" /\ raised[j].kind = "ZeroDivisionError"

\* ---- the geometry primitives (under SpecGeo)

\* C11: euclidean_distance is never negative, gives the same result with its
\* two points exchanged, gives 0 for a point and itself, and gives 0 only for
\* two equal points.
C11_DistanceIsMetric ==
    called = "euclidean_distance" =>
        /\ outcome.kind = "ok"
        /\ outcome.val >= 0
        /\ outcome.val = euclidean_distance(arg_p2, arg_p1)
        /\ arg_p1 = arg_p2 => outcome.val = 0
        /\ outcome.val = 0 => arg_p1 = arg_p2

\* The distance of a point to itself, the point off the diagonal of the grid.
C11_Witness ==
    /\ called = "euclidean_distance"
    /\ arg_p1 = arg_p2
    /\ arg_p1[1] # arg_p1[2]
    /\ outcome.val = 0

\* C12: for every radius r > 0 the ellipse formula called with a = b = r
\* returns the circumference 2 * pi * r of the circle: its bracket is 2 * r.
C12_CircleIsExact ==
    (called = "ramanujan_ellipse_circumference" /\ arg_a = arg_b /\ arg_a > 0) =>
        /\ outcome.kind = "ok"
        /\ outcome.val = (PiNum * (2 * arg_a)) \div PiDen

\* The circle of radius one centimetre.
C12_Witness ==
    /\ called = "ramanujan_ellipse_circumference"
    /\ arg_a = Unit
    /\ arg_b = Unit
    /\ outcome.kind = "ok"
    /\ outcome.val > 6 * Unit
    /\ outcome.val < 7 * Unit

FrontDistance(m, n) == euclidean_distance(arg_front[m], arg_front[n])

\* Twenty times the distance of side landmark n from the mean y of the side
\* landmarks l and r, and twenty times k hundredths of the y gap between the
\* side landmarks u and v: the two sides of the band test, free of fractions.
OffLevel20(n, l, r) == 10 * Abs(2 * arg_side[n][2] - (arg_side[l][2] + arg_side[r][2]))

Gap20(k, u, v) == (k * Abs(arg_side[u][2] - arg_side[v][2])) \div 5

\* C14: in calculate_chest_circumference, when every side landmark other than
\* the two shoulders is at least the chest tolerance away from the mean
\* shoulder y, the depth of the ellipse is |LEFT_SHOULDER.x - RIGHT_SHOULDER.x|
\* of the side view, the shoulders being inside the band or not.
C14_ChestDepthIsShoulderSpread ==
    (/\ called = "calculate_chest_circumference"
     /\ Absent = {}
     /\ \A n \in DOMAIN arg_side \ {"LEFT_SHOULDER", "RIGHT_SHOULDER"} :
            OffLevel20(n, "LEFT_SHOULDER", "RIGHT_SHOULDER")
                >= Gap20(20, "LEFT_SHOULDER", "LEFT_HIP"))
    => outcome = EllipseOf(MulC(FrontDistance("LEFT_SHOULDER", "RIGHT_SHOULDER"), 110),
                           Abs(arg_side["LEFT_SHOULDER"][1] - arg_side["RIGHT_SHOULDER"][1]) * Unit,
                           arg_scale)

\* Both shoulders inside the band, every other landmark outside it.
C14_Witness ==
    /\ called = "calculate_chest_circumference"
    /\ Absent = {}
    /\ DOMAIN arg_side = Names
    /\ \A n \in Names \ {"LEFT_SHOULDER", "RIGHT_SHOULDER"} :
           OffLevel20(n, "LEFT_SHOULDER", "RIGHT_SHOULDER")
               >= Gap20(20, "LEFT_SHOULDER", "LEFT_HIP")
    /\ OffLevel20("LEFT_SHOULDER", "LEFT_SHOULDER", "RIGHT_SHOULDER")
           < Gap20(20, "LEFT_SHOULDER", "LEFT_HIP")
    /\ arg_side["LEFT_SHOULDER"][1] # arg_side["RIGHT_SHOULDER"][1]
    /\ outcome.kind = "ok"

\* C15: calculate_shoulder_width returns the distance between the front
\* shoulders times the ratio; shoulders at one height and w pixels apart give
\* w times the ratio.
C15_ShoulderWidthIsScaledDistance ==
    (called = "calculate_shoulder_width" /\ Absent = {}) =>
        /\ outcome = Ok(ToCm(FrontDistance("LEFT_SHOULDER", "RIGHT_SHOULDER"), arg_scale))
        /\ arg_front["LEFT_SHOULDER"][2] = arg_front["RIGHT_SHOULDER"][2] =>
               outcome.val = ToCm(Abs(arg_front["LEFT_SHOULDER"][1]
                                          - arg_front["RIGHT_SHOULDER"][1]) * Unit,
                                  arg_scale)

\* Shoulders 6 pixels apart at one height, ratio 2/8: 1.5 cm.
C15_Witness ==
    /\ called = "calculate_shoulder_width"
    /\ Absent = {}
    /\ arg_front["LEFT_SHOULDER"][2] = arg_front["RIGHT_SHOULDER"][2]
    /\ Abs(arg_front["LEFT_SHOULDER"][1] - arg_front["RIGHT_SHOULDER"][1]) = 6
    /\ arg_scale = [n |-> 2, d |-> 8]
    /\ outcome = Ok((6 * Unit * 2) \div 8)

\* The side asked of calculate_sleeve_length in the call made.
Sleeve == IF called = "calculate_sleeve_length_LEFT" THEN "LEFT" ELSE "RIGHT"

SleeveCalled == called \in {"calculate_sleeve_length_LEFT", "calculate_sleeve_length_RIGHT"}

\* The elbow of the requested side lies on the segment from shoulder to wrist.
ElbowOnSegment ==
    LET s == arg_front[SideName(Sleeve, "SHOULDER")]
        e == arg_front[SideName(Sleeve, "ELBOW")]
        w == arg_front[SideName(Sleeve, "WRIST")]
    IN  /\ (e[1] - s[1]) * (w[2] - s[2]) = (e[2] - s[2]) * (w[1] - s[1])
        /\ (e[1] - s[1]) * (w[1] - e[1]) + (e[2] - s[2]) * (w[2] - e[2]) >= 0

\* The sum of the two segments of the requested arm, and the straight line
\* from its shoulder to its wrist, each times the ratio.
SleevePath ==
    ToCm(FrontDistance(SideName(Sleeve, "SHOULDER"), SideName(Sleeve, "ELBOW"))
             + FrontDistance(SideName(Sleeve, "ELBOW"), SideName(Sleeve, "WRIST")),
         arg_scale)

SleeveStraight ==
    ToCm(FrontDistance(SideName(Sleeve, "SHOULDER"), SideName(Sleeve, "WRIST")), arg_scale)

\* C16 as stated, its inequality: calculate_sleeve_length returns
\* (distance(shoulder, elbow) + distance(elbow, wrist)) times the ratio from
\* the three landmarks of the requested side, and the result is never below
\* distance(shoulder, wrist) times the ratio.
C16_SleeveNeverBelowStraight ==
    (SleeveCalled /\ Absent = {}) =>
        /\ outcome = Ok(SleevePath)
        /\ outcome.val >= SleeveStraight

\* C16 as amended: the result is the sum of the two segments times the ratio,
\* from the three landmarks of the requested side; it is below the straight
\* line times the ratio by at most one rounding error, and below it only
\* when the elbow lies on the segment.
C16_SleeveIsPathLength ==
    (SleeveCalled /\ Absent = {}) =>
        /\ outcome = Ok(SleevePath)
        /\ outcome.val + 1 >= SleeveStraight
        /\ outcome.val < SleeveStraight => ElbowOnSegment

\* A straight arm whose two rounded segments add up to less than the rounded
\* straight line.
C16_Witness ==
    /\ SleeveCalled
    /\ Absent = {}
    /\ ElbowOnSegment
    /\ outcome.kind = "ok"
    /\ outcome.val < SleeveStraight

\* The distance from the point ((LEFT_HIP.x + RIGHT_HIP.x) / 2, y) to the front
\* landmark ankle, in halves of a pixel so that the mean keeps its fraction.
FromMidHips(y, ankle) ==
    LET dx2 == 2 * arg_front[ankle][1] - (arg_front["LEFT_HIP"][1] + arg_front["RIGHT_HIP"][1])
        dy2 == 2 * (arg_front[ankle][2] - y)
    IN  Sqrt(dx2 * (Unit \div 2) * dx2 * (Unit \div 2) + dy2 * (Unit \div 2) * dy2 * (Unit \div 2))

LowerHipY == Max2(arg_front["LEFT_HIP"][2], arg_front["RIGHT_HIP"][2])

\* C17: calculate_inseam returns the ratio times the mean of the distances
\* from the crotch point to the two ankles, the crotch point having the mean
\* x of the hips and the larger y of the two.
C17_InseamFromLowerHip ==
    (called = "calculate_inseam" /\ Absent = {}) =>
        outcome = Ok(ToCm((FromMidHips(LowerHipY, "LEFT_ANKLE")
                               + FromMidHips(LowerHipY, "RIGHT_ANKLE")) \div 2,
                          arg_scale))

\* Hips at different heights, the mean of their x not a whole pixel.
C17_Witness ==
    /\ called = "calculate_inseam"
    /\ Absent = {}
    /\ arg_front["LEFT_HIP"][2] # arg_front["RIGHT_HIP"][2]
    /\ (arg_front["LEFT_HIP"][1] + arg_front["RIGHT_HIP"][1]) % 2 = 1
    /\ outcome.kind = "ok"
    /\ outcome.val > 0

\* C18: calculate_outseam returns the ratio times the mean of
\* distance(LEFT_HIP, LEFT_ANKLE) and distance(RIGHT_HIP, RIGHT_ANKLE): each
\* leg from its own hip, no crotch point.
C18_OutseamFromOwnHip ==
    (called = "calculate_outseam" /\ Absent = {}) =>
        outcome = Ok(ToCm((FrontDistance("LEFT_HIP", "LEFT_ANKLE")
                               + FrontDistance("RIGHT_HIP", "RIGHT_ANKLE")) \div 2,
                          arg_scale))

\* Legs 3 pixels long under hips 2 pixels apart, ratio 2/8: 0.75 cm, less
\* than the distance from the point between the hips.
C18_Witness ==
    /\ called = "calculate_outseam"
    /\ arg_front = FrontBase
    /\ arg_scale = [n |-> 2, d |-> 8]
    /\ outcome = Ok((3 * Unit * 2) \div 8)
    /\ outcome.val < ToCm(FromMidHips(LowerHipY, "LEFT_ANKLE"), arg_scale)

\* The band of chest, waist and hip: the pair whose mean y is the level, the
\* pair whose y gap gives the tolerance, the tolerance factor in hundredths,
\* and the front pair and width factor of the ellipse width.
BandOf(fn) ==
    CASE fn = "calculate_chest_circumference" ->
             [l |-> "LEFT_SHOULDER", r |-> "RIGHT_SHOULDER", u |-> "LEFT_SHOULDER",
              v |-> "LEFT_HIP", k |-> 20, w |-> 110]
      [] fn = "calculate_waist_circumference" ->
             [l |-> "LEFT_HIP", r |-> "RIGHT_HIP", u |-> "LEFT_HIP",
              v |-> "LEFT_SHOULDER", k |-> 10, w |-> 100]
      [] OTHER ->
             [l |-> "LEFT_HIP", r |-> "RIGHT_HIP", u |-> "LEFT_HIP",
              v |-> "LEFT_KNEE", k |-> 20, w |-> 100]

BandCalled ==
    called \in {"calculate_chest_circumference", "calculate_waist_circumference",
                "calculate_hip_circumference"}

\* The side landmarks strictly nearer than the tolerance to the level.
InBand ==
    LET bd == BandOf(called)
    IN  {n \in DOMAIN arg_side : OffLevel20(n, bd.l, bd.r) < Gap20(bd.k, bd.u, bd.v)}

\* The depth the claim gives: the x extent of the landmarks in the band, or
\* the x distance of the pair when the band holds no landmark.
BandDepthClaimed ==
    LET bd == BandOf(called)
        xs == {arg_side[n][1] : n \in InBand}
    IN  IF InBand = {}
        THEN Abs(arg_side[bd.l][1] - arg_side[bd.r][1]) * Unit
        ELSE (SetMax(xs) - SetMin(xs)) * Unit

\* C19: for chest, waist and hip the depth of the ellipse is max(x) - min(x)
\* over exactly the side landmarks, of any name, whose y is strictly nearer
\* than the tolerance to the level; the x distance of the fallback pair is
\* used if and only if no landmark is in the band, so always when the
\* tolerance is 0.
C19_BandSearchDepth ==
    (BandCalled /\ Absent = {}) =>
        /\ outcome = EllipseOf(MulC(FrontDistance(BandOf(called).l, BandOf(called).r),
                                    BandOf(called).w),
                               BandDepthClaimed, arg_scale)
        /\ Gap20(BandOf(called).k, BandOf(called).u, BandOf(called).v) = 0 => InBand = {}

\* A landmark that is neither hip nor shoulder is in the waist band and
\* widens it, while other landmarks stay out of it.
C19_Witness ==
    /\ called = "calculate_waist_circumference"
    /\ Absent = {}
    /\ DOMAIN arg_side = Names
    /\ \E n \in InBand \ {"LEFT_HIP", "RIGHT_HIP", "LEFT_SHOULDER"} :
           /\ arg_side[n][1] > arg_side["LEFT_HIP"][1] + 1
           /\ arg_side[n][1] > arg_side["RIGHT_HIP"][1] + 1
    /\ InBand # Names
    /\ outcome.kind = "ok"

\* The neck width, the depth from the side view, and the depth the claim
\* gives: the latter replaced when strictly below 0.3 of the width.
NeckWidthClaimed == MulC(FrontDistance("LEFT_SHOULDER", "RIGHT_SHOULDER"), 30)

NeckSpreadClaimed ==
    MulC(Abs(arg_side["LEFT_SHOULDER"][1] - arg_side["RIGHT_SHOULDER"][1]) * Unit, 30)

NeckDepthClaimed ==
    IF NeckSpreadClaimed < MulC(NeckWidthClaimed, 30)
    THEN MulC(NeckWidthClaimed, 70)
    ELSE NeckSpreadClaimed

\* C20: the neck ellipse has width 0.30 of the front shoulder distance and
\* depth 0.30 of the side shoulder x distance, replaced by 0.7 of the width
\* exactly when that depth is strictly below 0.3 of the width; so the depth
\* is never below 0.3 of the width.
C20_NeckDepthFloor ==
    (called = "calculate_neck_circumference" /\ Absent = {}) =>
        /\ outcome = EllipseOf(NeckWidthClaimed, NeckDepthClaimed, arg_scale)
        /\ NeckDepthClaimed >= MulC(NeckWidthClaimed, 30)

\* A side depth between 0.3 and 0.7 of the width, kept as it is.
C20_Witness ==
    /\ called = "calculate_neck_circumference"
    /\ Absent = {}
    /\ NeckSpreadClaimed >= MulC(NeckWidthClaimed, 30)
    /\ NeckSpreadClaimed < MulC(NeckWidthClaimed, 70)
    /\ NeckDepthClaimed = NeckSpreadClaimed
    /\ outcome.kind = "ok"
    /\ outcome.val > 0

\* The limb of bicep and thigh: the joints at its two ends and the factor, in
\* hundredths, of its length that is its width and its depth.
LimbCalled ==
    called \in {"calculate_bicep_circumference_LEFT", "calculate_bicep_circumference_RIGHT",
                "calculate_thigh_circumference_LEFT", "calculate_thigh_circumference_RIGHT"}

LimbOf(fn) ==
    CASE fn = "calculate_bicep_circumference_LEFT" ->
             [top |-> "LEFT_SHOULDER", bottom |-> "LEFT_ELBOW", k |-> 20]
      [] fn = "calculate_bicep_circumference_RIGHT" ->
             [top |-> "RIGHT_SHOULDER", bottom |-> "RIGHT_ELBOW", k |-> 20]
      [] fn = "calculate_thigh_circumference_LEFT" ->
             [top |-> "LEFT_HIP", bottom |-> "LEFT_KNEE", k |-> 25]
      [] OTHER ->
             [top |-> "RIGHT_HIP", bottom |-> "RIGHT_KNEE", k |-> 25]

\* The semi-axis the claim gives for a limb whose length in a view is
\* length_px: half of k hundredths of the length, times the ratio.
LimbSemiAxis(length_px, k) ==
    ((((length_px * k) \div 100) \div 2) * arg_scale.n) \div arg_scale.d

\* C21: bicep takes 0.20 of the front and of the side distance from shoulder
\* to elbow of the requested side as width and depth, thigh 0.25 of the front
\* and of the side distance from hip to knee; the ellipse formula is given
\* the semi-axes (width / 2) * ratio and (depth / 2) * ratio, so lengths and
\* not pixels.
C21_LimbSemiAxesInLengthUnits ==
    (LimbCalled /\ Absent = {}) =>
        LET lb == LimbOf(called)
        IN  outcome = ramanujan_ellipse_circumference(
                          LimbSemiAxis(FrontDistance(lb.top, lb.bottom), lb.k),
                          LimbSemiAxis(euclidean_distance(arg_side[lb.top], arg_side[lb.bottom]),
                                       lb.k))

\* A right thigh whose front and side lengths differ, at a ratio other than
\* one: the circumference is that of the scaled semi-axes.
C21_Witness ==
    /\ called = "calculate_thigh_circumference_RIGHT"
    /\ Absent = {}
    /\ FrontDistance("RIGHT_HIP", "RIGHT_KNEE")
           > euclidean_distance(arg_side["RIGHT_HIP"], arg_side["RIGHT_KNEE"])
    /\ arg_scale = [n |-> 2, d |-> 8]
    /\ outcome.kind = "ok"
    /\ outcome.val > 0
    /\ outcome.val < FrontDistance("RIGHT_HIP", "RIGHT_KNEE")

\* ---- the session (under SpecMain)

\* The text last typed, as the yes/no prompts read it.
Answered == lower(strip(response))

\* C22: get_user_consent returns True when the user answers yes or y and
\* False when the user answers no or n; when it returns False, main prints
\* the exit message and exits with status 0 without collecting inputs.
C22_DeclineReturnsFalseAndExits ==
    prompted = "consent" =>
        /\ IsYes(Answered) => consent = "True"
        /\ IsNo(Answered) =>
               /\ consent = "False"
               /\ step = "exited"
               /\ exit_status = 0
               /\ log = <<"welcome", "guidelines", "consent", "exit_message">>

\* The steps of main in the order the claim gives them.
SessionOrder ==
    <<"welcome", "guidelines", "consent", "input_collection", "front_detection",
      "side_detection", "calculation", "result_display", "export_offer", "completion">>

IsSessionStep(e) == \E k \in 1..Len(SessionOrder) : SessionOrder[k] = e

StepsTaken == SelectSeq(log, IsSessionStep)

\* The log entries before entry k hold no error and hold the step e.
CompletedBefore(e, k) ==
    /\ \E j \in 1..(k - 1) : log[j] = e
    /\ \A j \in 1..(k - 1) : log[j] # "error"

\* C23: in every run of main the steps are entered in the order welcome,
\* guidelines, consent, input collection, front detection, side detection,
\* calculation, result display, export offer, completion; results are
\* displayed and export is offered only after the two detections and the
\* calculation completed without error; when one of these three raises, an
\* error is displayed, no later step is entered and the exit status is 1.
C23_SessionOrder ==
    /\ Len(StepsTaken) <= Len(SessionOrder)
    /\ StepsTaken = SubSeq(SessionOrder, 1, Len(StepsTaken))
    /\ \A k \in 1..Len(log) :
           log[k] \in {"result_display", "export_offer"} =>
               /\ CompletedBefore("front_detection", k)
               /\ CompletedBefore("side_detection", k)
               /\ CompletedBefore("calculation", k)
               /\ measurements = "bound"
    /\ failed \in {"front_detection", "side_detection", "calculation"} =>
           /\ step = "exited"
           /\ exit_status = 1
           /\ Len(log) >= 2
           /\ log[Len(log)] = "error"
           /\ log[Len(log) - 1] = failed
    /\ (step = "exited" /\ log[Len(log)] = "completion") =>
           (exit_status = 0 /\ StepsTaken = SessionOrder)

\* The front detection returned, the side detection raised: the session
\* ended with an error and status 1, no calculation entered.
C23_Witness ==
    /\ failed = "side_detection"
    /\ front_landmarks = FrontBase
    /\ exit_status = 1
    /\ log = SubSeq(SessionOrder, 1, 6) \o <<"error">>

IsPositive(x) == (x.kind = "num" /\ x.val > 0) \/ (x.kind = "inf" /\ x.val > 0)

InTypicalRange(x) == x.kind = "num" /\ x.val >= 100 /\ x.val <= 250

\* C24: every height get_height returns is a number > 0, so main passes no
\* other height to the calculation; a height outside 100..250 is returned
\* only when the confirmation prompt that follows the entry was answered yes
\* or y; an entry that is not a number, is not positive or is not confirmed is
\* not returned, and the height is asked again.
C24_HeightPositiveAndConfirmed ==
    /\ height_cm # NoHeight => IsPositive(height_cm)
    /\ (step = "inputs_confirm" /\ prompted \in {"height", "height_confirm"}) =>
           /\ height_cm # NoHeight
           /\ ~InTypicalRange(height_cm) =>
                  (prompted = "height_confirm" /\ IsYes(Answered))
           /\ prompted = "height" => height_cm = float(response)
    /\ (step \in {"height", "height_confirm"}) => height_cm = NoHeight
    /\ (prompted = "height_confirm" /\ ~IsYes(Answered) /\ step # "exited") => step = "height"

\* The last attempt to write wrote the file.
Wrote == written # NoWrite /\ written.ok

\* C25: export_measurements writes only to a filename ending in .txt, writes
\* to no file that exists unless the overwrite prompt for that filename was
\* answered yes or y, and returns the written filename if and only if a
\* write succeeded: None when the user declined or gave up after an error.
C25_ExportWritesSafely ==
    /\ written # NoWrite =>
           /\ endswith(written.name, <<".", "t", "x", "t">>)
           /\ written.existed => written.approved
    /\ exported # NoFile <=> Wrote
    /\ Wrote => exported = written.name
    /\ (step = "completion" /\ prompted \in {"export_ask", "export_retry"}) =>
           exported = NoFile

\* The name typed had no extension; with it the file existed, the user
\* agreed to overwrite it, and the write succeeded.
C25_Witness ==
    /\ step = "completion"
    /\ response \in Responses
    /\ prompted = "export_overwrite"
    /\ written = [name |-> <<"a", ".", "t", "x", "t">>, existed |-> TRUE,
                  approved |-> TRUE, ok |-> TRUE]
    /\ exported = <<"a", ".", "t", "x", "t">>

\* ---- relations between two calls

\* The measurement key of calculate_all_measurements on the landmark sets of
\* invocation 1 and the height h.
MeasuredAt(key, h) ==
    Measurement(key, front[1], side[1], calibrate_pixel_to_cm(front[1], h).scale)

\* The distance, in the fixed-point unit, that the roundings of one
\* measurement can put between its value at k times a height and k times
\* its value at the height.
RoundingSlack(k) == 9 * k

Mirror(n) ==
    CASE n = "LEFT_SHOULDER" -> "RIGHT_SHOULDER" [] n = "RIGHT_SHOULDER" -> "LEFT_SHOULDER"
      [] n = "LEFT_ELBOW" -> "RIGHT_ELBOW" [] n = "RIGHT_ELBOW" -> "LEFT_ELBOW"
      [] n = "LEFT_WRIST" -> "RIGHT_WRIST" [] n = "RIGHT_WRIST" -> "LEFT_WRIST"
      [] n = "LEFT_HIP" -> "RIGHT_HIP" [] n = "RIGHT_HIP" -> "LEFT_HIP"
      [] n = "LEFT_ANKLE" -> "RIGHT_ANKLE" [] n = "RIGHT_ANKLE" -> "LEFT_ANKLE"
      [] OTHER -> n

\* The front set of the call with the left and right entries exchanged.
Mirrored == [n \in {Mirror(m) : m \in DOMAIN arg_front} |-> arg_front[Mirror(n)]]

\* C27: exchanging the LEFT_ and RIGHT_ entries of shoulder, elbow, wrist,
\* hip and ankle in the front set, at the same ratio, leaves shoulder_width,
\* inseam and outseam unchanged and exchanges the two sleeve lengths.
C27_LeftRightSymmetry ==
    Absent = {} =>
        /\ called = "calculate_shoulder_width" =>
               outcome = calculate_shoulder_width(Mirrored, arg_scale)
        /\ called = "calculate_inseam" => outcome = calculate_inseam(Mirrored, arg_scale)
        /\ called = "calculate_outseam" => outcome = calculate_outseam(Mirrored, arg_scale)
        /\ called = "calculate_sleeve_length_LEFT" =>
               outcome = calculate_sleeve_length(Mirrored, arg_scale, "RIGHT")
        /\ called = "calculate_sleeve_length_RIGHT" =>
               outcome = calculate_sleeve_length(Mirrored, arg_scale, "LEFT")

\* An inseam on hips at two heights and ankles at two heights: the legs differ.
C27_Witness ==
    /\ called = "calculate_inseam"
    /\ Absent = {}
    /\ arg_front["LEFT_HIP"][2] > arg_front["RIGHT_HIP"][2]
    /\ FrontDistance("LEFT_HIP", "LEFT_ANKLE") # FrontDistance("RIGHT_HIP", "RIGHT_ANKLE")
    /\ outcome.kind = "ok"
    /\ outcome.val > 0

====
